---- MODULE Spec2Model ----
(***************************************************************************)
(* A model of the rootfilespec binary deserialization engine: the          *)
(* positional ReadBuffer, the RNTuple frame / locator / envelope readers,  *)
(* the envelope link, the RNTuple anchor traversal, TKey.read_object and   *)
(* the TKeyList lookup.                                                    *)
(*                                                                         *)
(* Readers are pure functions of a buffer; they are operators that return  *)
(* a record [err, val, buf]: err = "" on success (val is the decoded       *)
(* object, buf the remaining ReadBuffer), otherwise err names the Python   *)
(* exception that propagates to the caller.                                *)
(*                                                                         *)
(* Integers of the format are decoded byte by byte.  All values that the   *)
(* inputs encode are below 2^31 (the high bytes of 64-bit words are zero). *)
(***************************************************************************)
EXTENDS Integers, Sequences, FiniteSets, TLC

VARIABLES
    \* --- a single reader applied to a buffer (frames, envelopes) ---
    rd_pc,      \* "start" -> "ready" -> "done"
    rd_buffer,  \* the ReadBuffer handed to the reader
    rd_reader,  \* [op, cls, itemtype]: the read operation the caller applies
    rd_skip,    \* bytes the caller consumes before the object starts
    rd_result,  \* what the reader returned
    \* --- an envelope link followed into a file ---
    lk_pc,      \* "ready" -> "done"
    lk_file,    \* the bytes of the file
    lk_link,    \* the REnvelopeLink
    lk_call,    \* [version, envtype]: which read_envelope, for which class
    lk_result,  \* what read_envelope returned or raised
    \* --- RNTuple.from_anchor ---
    nt_pc,         \* the statement from_anchor is at
    nt_file,       \* the bytes of the file
    nt_anchor,     \* the ROOT3a3aRNTuple anchor
    nt_fetches,    \* the fetches issued so far, in order
    nt_header,     \* headerEnvelope
    nt_footer,     \* footerEnvelope
    nt_pagelists,  \* the page list envelopes read so far
    nt_index,      \* the position of the running loop
    nt_error,      \* the exception that left from_anchor, "" if none
    \* --- TKey.read_object ---
    ky_pc,          \* the statement read_object is at
    ky_file,        \* the bytes of the file
    ky_key,         \* the TKey (self)
    ky_objtype,     \* the objtype argument, "None" if not given
    ky_fetches,     \* the fetches issued so far, in order
    ky_buffer,      \* buffer
    ky_compressed,  \* compressed
    ky_obj,         \* obj
    ky_reads,       \* how many times the object reader was called
    ky_error,       \* the exception that left read_object, "" if none
    \* --- TKeyList ---
    kl_pc,      \* "ready" -> "done"
    kl_fKeys,   \* self.fKeys
    kl_key,     \* the name asked for, a str
    kl_result,  \* what the call returned or raised
    \* --- ReadBuffers and their tables of local references ---
    bf_heap,    \* the dicts made so far, in order of creation
    bf_bufs,    \* the ReadBuffers made so far; local_refs is a place of bf_heap
    bf_last,    \* the last operation: [op, self, k, err, out, val]
    \* --- RNTuple.get_extended_page_descriptions ---
    xp_pc,      \* "ready" -> "done"
    xp_tuple,   \* the RNTuple (self)
    xp_pages    \* envelopePages, as returned

readVars == <<rd_pc, rd_buffer, rd_reader, rd_skip, rd_result>>
linkVars == <<lk_pc, lk_file, lk_link, lk_call, lk_result>>
tupleVars ==
    <<nt_pc, nt_file, nt_anchor, nt_fetches, nt_header, nt_footer, nt_pagelists,
      nt_index, nt_error>>
keyVars ==
    <<ky_pc, ky_file, ky_key, ky_objtype, ky_fetches, ky_buffer, ky_compressed,
      ky_obj, ky_reads, ky_error>>
keyListVars == <<kl_pc, kl_fKeys, kl_key, kl_result>>
bufVars == <<bf_heap, bf_bufs, bf_last>>
pageVars == <<xp_pc, xp_tuple, xp_pages>>

----------------------------------------------------------------------------
(* Results *)

NoBuf == [data |-> <<>>, abspos |-> -1, relpos |-> 0]
Ok(v, b) == [err |-> "", val |-> v, buf |-> b]
Fail(e) == [err |-> e, val |-> <<>>, buf |-> NoBuf]
None == [cls |-> "None"]

\* the value an expression is bound to: Only({ body : name \in {expression} })
\* is the body with the name standing for the value of the expression
Only(S) == CHOOSE v \in S : TRUE

----------------------------------------------------------------------------
(* struct: the formats the readers use *)

calcsize(fmt) ==
    CASE fmt \in {"<Q", "<q", ">Q", ">q"} -> 8
      [] fmt \in {"<I", "<i", ">I", ">i", ">f"} -> 4
      [] fmt \in {"<H", "<h", ">H", ">h"} -> 2
      [] fmt \in {"<B", ">B"} -> 1

Reverse(s) == [i \in 1..Len(s) |-> s[Len(s) + 1 - i]]

RECURSIVE BigEndian(_)
\* the unsigned value of bytes, most significant first
BigEndian(bytes) ==
    IF bytes = <<>> THEN 0
    ELSE 256 * BigEndian(SubSeq(bytes, 1, Len(bytes) - 1)) + bytes[Len(bytes)]

\* the two's complement value of bytes, most significant first
BigEndianSigned(bytes) ==
    IF bytes[1] >= 128
    THEN -BigEndian([i \in 1..Len(bytes) |-> 255 - bytes[i]]) - 1
    ELSE BigEndian(bytes)

\* an unsigned value of 8 bytes that is 2^31 or more, kept as its four
\* quarters of 16 bits, the most significant first: the integers of TLC have
\* 32 bits
Wide(msbFirst) ==
    [quarters |-> [i \in 1..4 |-> BigEndian(SubSeq(msbFirst, 2 * i - 1, 2 * i))]]

\* a binary32 float as its sign bit, its exponent field and its fraction field
Float32(msbFirst) ==
    [sign |-> msbFirst[1] \div 128,
     exponent |-> (msbFirst[1] % 128) * 2 + msbFirst[2] \div 128,
     fraction |-> BigEndian(<<msbFirst[2] % 128, msbFirst[3], msbFirst[4]>>)]

\* struct.unpack(fmt, bytes) for a format of one item; Len(bytes) = calcsize(fmt)
struct_unpack(fmt, bytes) ==
    LET msbFirst == IF fmt \in {"<Q", "<q", "<I", "<i", "<H", "<h", "<B"}
                    THEN Reverse(bytes) ELSE bytes
    IN  IF fmt = ">f" THEN Float32(msbFirst)
        ELSE IF fmt \in {"<q", ">q", "<i", ">i", "<h", ">h"}
        THEN BigEndianSigned(msbFirst)
        ELSE IF Len(msbFirst) = 8
                /\ (SubSeq(msbFirst, 1, 4) # <<0, 0, 0, 0>> \/ msbFirst[5] >= 128)
        THEN Wide(msbFirst)
        ELSE BigEndian(msbFirst)

----------------------------------------------------------------------------
(* ReadBuffer.  abspos = -1 stands for None. *)

ReadBuffer(data, abspos, relpos) ==
    [data |-> data, abspos |-> abspos, relpos |-> relpos]

\* data[:size] of a bytes-like object
Prefix(data, size) ==
    IF size >= 0 THEN SubSeq(data, 1, IF size < Len(data) THEN size ELSE Len(data))
    ELSE SubSeq(data, 1, IF Len(data) + size > 0 THEN Len(data) + size ELSE 0)

\* data[start:] of a bytes-like object
Suffix(data, start) ==
    IF start >= 0 THEN SubSeq(data, start + 1, Len(data))
    ELSE SubSeq(data, (IF Len(data) + start > 0 THEN Len(data) + start ELSE 0) + 1,
                Len(data))

\* ReadBuffer.__getitem__(slice(start, None))
ReadBuffer_getitem(self, start) ==
    IF start > Len(self.data) THEN Fail("IndexError")
    ELSE Ok(<<>>, ReadBuffer(Suffix(self.data, start),
                             IF self.abspos # -1 THEN self.abspos + start ELSE -1,
                             self.relpos + start))

ReadBuffer_len(self) == Len(self.data)

ReadBuffer_bool(self) == self.data # <<>>

\* ReadBuffer.unpack(fmt)
unpack(self, fmt) ==
    IF Len(Prefix(self.data, calcsize(fmt))) # calcsize(fmt)
    THEN Fail("struct.error")
    ELSE
    Only({ IF rest.err # "" THEN rest
           ELSE Ok(struct_unpack(fmt, Prefix(self.data, calcsize(fmt))), rest.buf)
    : rest \in {ReadBuffer_getitem(self, calcsize(fmt))} })

\* ReadBuffer.consume(size)
consume(self, size) ==
    IF size < 0 THEN Fail("ValueError")
    ELSE
    Only({ IF rest.err # "" THEN rest
           ELSE Ok(Prefix(self.data, size), rest.buf)
    : rest \in {ReadBuffer_getitem(self, size)} })

\* ReadBuffer.consume_view(size)
consume_view(self, size) ==
    Only({ IF rest.err # "" THEN rest
           ELSE Ok(Prefix(self.data, size), rest.buf)
    : rest \in {ReadBuffer_getitem(self, size)} })

----------------------------------------------------------------------------
(* ReadBuffer.local_refs.  A dict is a place of a heap (a sequence of    *)
(* dicts), so that two buffers can hold the same dict or equal dicts; a  *)
(* dict is a set of [key, name].  local_refs = 0 stands for None.        *)

OkH(v, b, heap) == [err |-> "", val |-> v, buf |-> b, heap |-> heap]
FailH(e, heap) == [err |-> e, val |-> <<>>, buf |-> NoBuf, heap |-> heap]

\* ReadBuffer.__init__: self.local_refs = local_refs or {}
ReadBuffer_init(heap, data, abspos, relpos, local_refs) ==
    IF local_refs = 0 \/ heap[local_refs] = {}
    THEN OkH(<<>>, [data |-> data, abspos |-> abspos, relpos |-> relpos,
                    local_refs |-> Len(heap) + 1], Append(heap, {}))
    ELSE OkH(<<>>, [data |-> data, abspos |-> abspos, relpos |-> relpos,
                    local_refs |-> local_refs], heap)

\* the ReadBuffer that __getitem__ makes for the remainder r of self
Derived(heap, self, r) ==
    IF r.err # "" THEN FailH(r.err, heap)
    ELSE
    Only({ OkH(r.val, n.buf, n.heap)
    : n \in {ReadBuffer_init(heap, r.buf.data, r.buf.abspos, r.buf.relpos,
                             self.local_refs)} })

\* buffer[start:], buffer.unpack(fmt), buffer.consume(size),
\* buffer.consume_view(size)
ReadBuffer_from(heap, self, start) ==
    Derived(heap, self, ReadBuffer_getitem(self, start))
ReadBuffer_unpack(heap, self, fmt) == Derived(heap, self, unpack(self, fmt))
ReadBuffer_consume(heap, self, size) == Derived(heap, self, consume(self, size))
ReadBuffer_consume_view(heap, self, size) ==
    Derived(heap, self, consume_view(self, size))

\* buffer[:stop]
ReadBuffer_upto(heap, self, stop) ==
    ReadBuffer_init(heap, Prefix(self.data, stop), self.abspos, self.relpos,
                    self.local_refs)

----------------------------------------------------------------------------
(* Locators and the envelope link (parsing) *)

\* StandardLocator.read
StandardLocator_read(buffer) ==
    Only({ IF s.err # "" THEN s ELSE
    Only({ IF o.err # "" THEN o ELSE
           Ok([cls |-> "StandardLocator",
               size |-> IF s.val < 0 THEN -s.val ELSE s.val,
               offset |-> o.val], o.buf)
    : o \in {unpack(s.buf, "<Q")} })
    : s \in {unpack(buffer, "<i")} })

\* LargeLocator.read
LargeLocator_read(buffer) ==
    Only({ IF s.err # "" THEN s ELSE
    Only({ IF o.err # "" THEN o ELSE
           Ok([cls |-> "LargeLocator", size |-> s.val, offset |-> o.val], o.buf)
    : o \in {unpack(s.buf, "<Q")} })
    : s \in {unpack(buffer, "<Q")} })

\* RLocator.read: the first word is peeked at; a negative word is consumed
\* and its bits 24..31 select the locator type
RLocator_read(buffer) ==
    Only({ IF w.err # "" THEN w
           ELSE IF w.val >= 0 THEN StandardLocator_read(buffer)
           ELSE IF (w.val \div 16777216) % 256 = 1 THEN LargeLocator_read(w.buf)
           ELSE Fail("ValueError")
    : w \in {unpack(buffer, "<i")} })

\* REnvelopeLink.read
REnvelopeLink_read(buffer) ==
    Only({ IF l.err # "" THEN l ELSE
    Only({ IF loc.err # "" THEN loc ELSE
           Ok([cls |-> "REnvelopeLink", length |-> l.val, locator |-> loc.val],
              loc.buf)
    : loc \in {RLocator_read(l.buf)} })
    : l \in {unpack(buffer, "<Q")} })

----------------------------------------------------------------------------
(* Declarative member reading and the frame layer *)

RecordFrameClasses == {"SchemaExtension", "ClusterGroup", "ClusterSummary"}
ListFrameClasses ==
    {"ListFrame", "PageLocations_Pages", "PageLocations_Columns",
     "PageLocations_Clusters"}
Formats == {"<Q", "<q", "<I", "<i", ">q", ">I", ">i", ">h"}

\* the annotated fields a class declares itself, in declaration order
Annotations(cls) ==
    CASE cls = "ClusterGroup" -> <<"<Q", "<Q", "<I", "REnvelopeLink">>
      [] cls = "ClusterSummary" -> <<"<Q", "<Q">>
      [] cls = "RPageDescription" -> <<"<i", "RLocator">>
      [] OTHER -> <<>>

\* ClusterSummary.fNEntries and ClusterSummary.fFeatureFlag of a summary whose
\* fNEntriesAndFeatureFlag is Wide: the low 56 bits, as quarters, and the 8
\* bits above them
ClusterSummary_fNEntries(self) ==
    [i \in 1..4 |-> IF i = 1 THEN self.fNEntriesAndFeatureFlag.quarters[1] % 256
                    ELSE self.fNEntriesAndFeatureFlag.quarters[i]]
ClusterSummary_fFeatureFlag(self) ==
    (self.fNEntriesAndFeatureFlag.quarters[1] \div 256) % 256

\* cls(fSize, *args), cls(*args)
Construct(cls, fSize, args, unknown) ==
    CASE cls = "ClusterGroup" ->
            [cls |-> cls, fSize |-> fSize, fMinEntryNumber |-> args[1],
             fEntrySpan |-> args[2], fNClusters |-> args[3],
             pagelistLink |-> args[4], _unknown |-> unknown]
      [] cls = "ClusterSummary" ->
            [cls |-> cls, fSize |-> fSize, fFirstEntryNumber |-> args[1],
             fNEntriesAndFeatureFlag |-> args[2], _unknown |-> unknown]
      [] cls = "RPageDescription" ->
            [cls |-> cls, fNElements |-> args[1], locator |-> args[2]]
      [] OTHER -> [cls |-> cls, fSize |-> fSize, _unknown |-> unknown]

RECURSIVE read(_, _)
RECURSIVE ReadConstructors(_, _, _, _)
RECURSIVE ReadItems(_, _, _, _)
RECURSIVE RecordFrame_read(_, _)
RECURSIVE ListFrame_read_as(_, _, _)
RECURSIVE RecordFrame_read_payload(_, _)
RECURSIVE ListFrame_read_as_payload(_, _, _)

\* _get_read_method(ftype) applied to a buffer
ReadMethod(ftype, buffer) ==
    IF ftype \in Formats THEN unpack(buffer, ftype) ELSE read(ftype, buffer)

\* the loop of the read_members that @serializable generates
ReadConstructors(constructors, i, args, buffer) ==
    IF i > Len(constructors) THEN Ok(args, buffer)
    ELSE
    Only({ IF r.err # "" THEN r
           ELSE ReadConstructors(constructors, i + 1, Append(args, r.val), r.buf)
    : r \in {ReadMethod(constructors[i], buffer)} })

serializable_read_members(cls, buffer) ==
    ReadConstructors(Annotations(cls), 1, <<>>, buffer)

\* PageLocations_Pages.read_members; a missing compressionsettings is -1
PageLocations_Pages_read_members(buffer) ==
    Only({ IF e.err # "" THEN e
           ELSE IF e.val < 0 THEN Ok(<<e.val, -1>>, e.buf)
           ELSE
           Only({ IF c.err # "" THEN c ELSE Ok(<<e.val, c.val>>, c.buf)
           : c \in {unpack(e.buf, "<I")} })
    : e \in {unpack(buffer, "<q")} })

\* cls.read_members
read_members(cls, buffer) ==
    IF cls = "PageLocations_Pages" THEN PageLocations_Pages_read_members(buffer)
    ELSE serializable_read_members(cls, buffer)

\* the item type a list frame class reads
ItemType(cls) ==
    CASE cls = "PageLocations_Pages" -> "RPageDescription"
      [] cls = "PageLocations_Columns" -> "PageLocations_Pages"
      [] cls = "PageLocations_Clusters" -> "PageLocations_Columns"

\* the while loop of ListFrame.read_as
ReadItems(itemtype, nItems, items, buffer) ==
    IF Len(items) >= nItems THEN Ok(items, buffer)
    ELSE
    Only({ IF r.err # "" THEN r
           ELSE ReadItems(itemtype, nItems, Append(items, r.val), r.buf)
    : r \in {read(itemtype, buffer)} })

\* ListFrame.read_as up to the unknown trailing bytes: the size word, the item
\* count, the items and the extra members of the frame class
ListFrame_read_as_payload(cls, itemtype, buffer) ==
    Only({ IF s.err # "" THEN s
           ELSE IF s.val >= 0 THEN Fail("ValueError")
           ELSE
    Only({ IF n.err # "" THEN n ELSE
    Only({ IF it.err # "" THEN it ELSE
    Only({ IF m.err # "" THEN m ELSE
           Ok([fSize |-> -s.val, items |-> it.val, args |-> m.val], m.buf)
    : m \in {read_members(cls, it.buf)} })
    : it \in {ReadItems(itemtype, n.val, <<>>, n.buf)} })
    : n \in {unpack(s.buf, "<I")} })
    : s \in {unpack(buffer, "<q")} })

\* ListFrame.read_as
ListFrame_read_as(cls, itemtype, buffer) ==
    Only({ IF p.err # "" THEN p ELSE
    Only({ IF u.err # "" THEN u ELSE
           Ok([cls |-> cls, fSize |-> p.val.fSize, items |-> p.val.items,
               args |-> p.val.args, _unknown |-> u.val], u.buf)
    : u \in {consume(p.buf, p.val.fSize - (p.buf.relpos - buffer.relpos))} })
    : p \in {ListFrame_read_as_payload(cls, itemtype, buffer)} })

\* RecordFrame.read up to the unknown trailing bytes: the size word and the
\* members of the frame class
RecordFrame_read_payload(cls, buffer) ==
    Only({ IF s.err # "" THEN s
           ELSE IF s.val <= 0 THEN Fail("ValueError")
           ELSE
    Only({ IF m.err # "" THEN m ELSE
           Ok([fSize |-> s.val, args |-> m.val], m.buf)
    : m \in {read_members(cls, s.buf)} })
    : s \in {unpack(buffer, "<q")} })

\* RecordFrame.read that leaves the unknown trailing bytes in the buffer
RecordFrame_read_noskip(cls, buffer) ==
    Only({ IF p.err # "" THEN p
           ELSE Ok(Construct(cls, p.val.fSize, p.val.args, <<>>), p.buf)
    : p \in {RecordFrame_read_payload(cls, buffer)} })

\* RecordFrame.read
RecordFrame_read(cls, buffer) ==
    Only({ IF p.err # "" THEN p ELSE
    Only({ IF u.err # "" THEN u ELSE
           Ok(Construct(cls, p.val.fSize, p.val.args, u.val), u.buf)
    : u \in {consume(p.buf, p.val.fSize - (p.buf.relpos - buffer.relpos))} })
    : p \in {RecordFrame_read_payload(cls, buffer)} })

\* the depth of calls at which Python raises RecursionError
RecursionLimit == 3

RECURSIVE RFrame_read_as(_, _, _)
RECURSIVE RecordFrame_read_as(_, _, _)
\* RFrame.read_as at a depth of calls
RFrame_read_as(itemtype, buffer, depth) ==
    IF depth >= RecursionLimit THEN Fail("RecursionError")
    ELSE
    Only({ IF s.err # "" THEN s
           ELSE IF s.val > 0 THEN RecordFrame_read_as(itemtype, buffer, depth + 1)
           ELSE IF s.val < 0 THEN ListFrame_read_as("ListFrame", itemtype, buffer)
           ELSE Fail("ValueError")
    : s \in {unpack(buffer, "<q")} })
\* RecordFrame.read_as: RecordFrame defines read only, so this is the
\* read_as it inherits from RFrame
RecordFrame_read_as(itemtype, buffer, depth) ==
    RFrame_read_as(itemtype, buffer, depth)

\* cls.read
read(cls, buffer) ==
    CASE cls = "RLocator" -> RLocator_read(buffer)
      [] cls = "REnvelopeLink" -> REnvelopeLink_read(buffer)
      [] cls \in RecordFrameClasses -> RecordFrame_read(cls, buffer)
      [] cls \in ListFrameClasses \ {"ListFrame"} ->
            ListFrame_read_as(cls, ItemType(cls), buffer)
      [] cls = "RPageDescription" ->
            Only({ IF m.err # "" THEN m
                   ELSE Ok(Construct(cls, 0, m.val, <<>>), m.buf)
            : m \in {read_members(cls, buffer)} })

----------------------------------------------------------------------------
(* Envelopes *)

EnvelopeClasses == {"HeaderEnvelope", "FooterEnvelope", "PageListEnvelope"}

\* ENVELOPE_TYPE_MAP after the registrations of envelopes.py; "" = no entry
ENVELOPE_TYPE_MAP(typeID) ==
    CASE typeID = 0 -> "Reserved"
      [] typeID = 1 -> "HeaderEnvelope"
      [] typeID = 2 -> "FooterEnvelope"
      [] typeID = 3 -> "PageListEnvelope"
      [] OTHER -> ""

\* RFeatureFlags.read
RFeatureFlags_read(buffer) ==
    Only({ IF f.err # "" THEN f
           ELSE IF f.val # 0 THEN Fail("NotImplementedError")
           ELSE Ok([flags |-> f.val], f.buf)
    : f \in {unpack(buffer, "<q")} })

\* FooterEnvelope.read_members
FooterEnvelope_read_members(buffer) ==
    Only({ IF f.err # "" THEN f ELSE
    Only({ IF h.err # "" THEN h ELSE
    Only({ IF x.err # "" THEN x ELSE
    Only({ IF g.err # "" THEN g ELSE
           Ok([featureFlags |-> f.val, headerChecksum |-> h.val,
               schemaExtension |-> x.val, clusterGroups |-> g.val], g.buf)
    : g \in {ListFrame_read_as("ListFrame", "ClusterGroup", x.buf)} })
    : x \in {RecordFrame_read("SchemaExtension", h.buf)} })
    : h \in {unpack(f.buf, "<Q")} })
    : f \in {RFeatureFlags_read(buffer)} })

\* PageListEnvelope.read_members
PageListEnvelope_read_members(buffer) ==
    Only({ IF h.err # "" THEN h ELSE
    Only({ IF c.err # "" THEN c ELSE
    Only({ IF p.err # "" THEN p ELSE
           Ok([headerChecksum |-> h.val, clusterSummaries |-> c.val,
               pageLocations |-> p.val], p.buf)
    : p \in {ListFrame_read_as("PageLocations_Clusters", "PageLocations_Columns",
                               c.buf)} })
    : c \in {ListFrame_read_as("ListFrame", "ClusterSummary", h.buf)} })
    : h \in {unpack(buffer, "<Q")} })

\* cls.read_members of an envelope class; HeaderEnvelope declares no member
Envelope_read_members(cls, buffer) ==
    CASE cls = "HeaderEnvelope" -> Ok([none |-> TRUE], buffer)
      [] cls = "FooterEnvelope" -> FooterEnvelope_read_members(buffer)
      [] cls = "PageListEnvelope" -> PageListEnvelope_read_members(buffer)

\* REnvelope.read up to the trailing checksum, without the comparison of the
\* declared length with the buffer
REnvelope_read_payload_nolength(cls, buffer) ==
    Only({ IF w.err # "" THEN w
           ELSE IF ENVELOPE_TYPE_MAP(w.val % 65536) = "" THEN Fail("KeyError")
           ELSE IF ENVELOPE_TYPE_MAP(w.val % 65536) # cls THEN Fail("ValueError")
           ELSE
    Only({ IF m.err # "" THEN m ELSE
    Only({ IF u.err # "" THEN u ELSE
           Ok([cls |-> cls, typeID |-> w.val % 65536, length |-> w.val \div 65536,
               args |-> m.val, _unknown |-> u.val], u.buf)
    : u \in {consume(m.buf, (w.val \div 65536)
                                - (m.buf.relpos - buffer.relpos) - 8)} })
    : m \in {Envelope_read_members(cls, w.buf)} })
    : w \in {unpack(buffer, "<Q")} })

\* REnvelope.read up to the trailing checksum: the length/type word, the type
\* and length checks, the payload and the unknown trailing bytes
REnvelope_read_payload(cls, buffer) ==
    Only({ IF w.err # "" THEN w
           ELSE IF ENVELOPE_TYPE_MAP(w.val % 65536) = "" THEN Fail("KeyError")
           ELSE IF ENVELOPE_TYPE_MAP(w.val % 65536) # cls THEN Fail("ValueError")
           ELSE IF (w.val \div 65536) - 8 # ReadBuffer_len(w.buf)
                THEN Fail("ValueError")
           ELSE
    Only({ IF m.err # "" THEN m ELSE
    Only({ IF u.err # "" THEN u ELSE
           Ok([cls |-> cls, typeID |-> w.val % 65536, length |-> w.val \div 65536,
               args |-> m.val, _unknown |-> u.val], u.buf)
    : u \in {consume(m.buf, (w.val \div 65536)
                                - (m.buf.relpos - buffer.relpos) - 8)} })
    : m \in {Envelope_read_members(cls, w.buf)} })
    : w \in {unpack(buffer, "<Q")} })

\* REnvelope.read (envelope_base.py)
REnvelope_read(cls, buffer) ==
    Only({ IF p.err # "" THEN p ELSE
    Only({ IF c.err # "" THEN c ELSE
           Ok([cls |-> cls, typeID |-> p.val.typeID, length |-> p.val.length,
               checksum |-> c.val, args |-> p.val.args,
               _unknown |-> p.val._unknown], c.buf)
    : c \in {unpack(p.buf, "<Q")} })
    : p \in {REnvelope_read_payload(cls, buffer)} })

\* REnvelope.read of REnvelope.py, which does not compare the type with the
\* class, up to the trailing checksum
REnvelope_py_read_payload(cls, buffer) ==
    Only({ IF w.err # "" THEN w
           ELSE IF (w.val \div 65536) - 8 # ReadBuffer_len(w.buf)
                THEN Fail("ValueError")
           ELSE
    Only({ IF m.err # "" THEN m ELSE
    Only({ IF u.err # "" THEN u ELSE
           Ok([cls |-> cls, typeID |-> w.val % 65536, length |-> w.val \div 65536,
               args |-> m.val, _unknown |-> u.val], u.buf)
    : u \in {consume(m.buf, (w.val \div 65536)
                                - (m.buf.relpos - buffer.relpos) - 8)} })
    : m \in {Envelope_read_members(cls, w.buf)} })
    : w \in {unpack(buffer, "<Q")} })

\* REnvelope.read (REnvelope.py)
REnvelope_py_read(cls, buffer) ==
    Only({ IF p.err # "" THEN p ELSE
    Only({ IF c.err # "" THEN c ELSE
           Ok([cls |-> cls, typeID |-> p.val.typeID, length |-> p.val.length,
               checksum |-> c.val, args |-> p.val.args,
               _unknown |-> p.val._unknown], c.buf)
    : c \in {unpack(p.buf, "<Q")} })
    : p \in {REnvelope_py_read_payload(cls, buffer)} })

----------------------------------------------------------------------------
(* Following an envelope link *)

\* fetch_data(seek, size) of a file opened for reading: seek, then read at
\* most size bytes
Fetch(file, seek, size) ==
    ReadBuffer(SubSeq(file, seek + 1,
                      IF seek + size < Len(file) THEN seek + size ELSE Len(file)),
               seek, 0)

\* StandardLocator.get_buffer, LargeLocator.get_buffer
Locator_get_buffer(self, file) == Fetch(file, self.offset, self.size)

\* what read_envelope did: the exception raised ("" if it returned), the
\* envelope, the buffer left after the envelope, the bytes fetched and the
\* fetches issued
LinkResult(err, val, rest, self, buffer) ==
    [err |-> err, val |-> val, buf |-> rest, fetched |-> Len(buffer.data),
     fetches |-> <<[seek |-> self.locator.offset, size |-> self.locator.size]>>]

\* REnvelopeLink.read_envelope that reads the envelope from the first
\* declared-length bytes of the buffer and tolerates what follows
REnvelopeLink_read_envelope_tolerant(self, file, envtype) ==
    Only({ IF self.locator.size # self.length
           THEN LinkResult("NotImplementedError", <<>>, NoBuf, self, buffer)
           ELSE
    Only({ IF w.err # "" THEN LinkResult(w.err, <<>>, NoBuf, self, buffer)
           ELSE
    Only({ IF e.err # "" THEN LinkResult(e.err, <<>>, NoBuf, self, buffer)
           ELSE LinkResult("", e.val,
                           ReadBuffer_getitem(buffer, e.buf.relpos).buf,
                           self, buffer)
    : e \in {REnvelope_read(envtype,
                            ReadBuffer(Prefix(buffer.data, w.val \div 65536),
                                       buffer.abspos, buffer.relpos))} })
    : w \in {unpack(buffer, "<Q")} })
    : buffer \in {Locator_get_buffer(self.locator, file)} })

\* REnvelopeLink.read_envelope that decodes the fetched bytes whatever the
\* size of the locator
REnvelopeLink_read_envelope_raw(self, file, envtype) ==
    Only({
    Only({ IF w.err # "" THEN LinkResult(w.err, <<>>, NoBuf, self, buffer)
           ELSE IF w.val \div 65536 # ReadBuffer_len(buffer)
                THEN LinkResult("ValueError", <<>>, NoBuf, self, buffer)
           ELSE
    Only({ IF e.err # "" THEN LinkResult(e.err, <<>>, NoBuf, self, buffer)
           ELSE IF ReadBuffer_bool(e.buf)
                THEN LinkResult("ValueError", <<>>, NoBuf, self, buffer)
           ELSE LinkResult("", e.val, e.buf, self, buffer)
    : e \in {REnvelope_read(envtype, buffer)} })
    : w \in {unpack(buffer, "<Q")} })
    : buffer \in {Locator_get_buffer(self.locator, file)} })

\* REnvelopeLink.read_envelope (envelope_base.py)
REnvelopeLink_read_envelope(self, file, envtype) ==
    Only({ IF self.locator.size # self.length
           THEN LinkResult("NotImplementedError", <<>>, NoBuf, self, buffer)
           ELSE
    Only({ IF w.err # "" THEN LinkResult(w.err, <<>>, NoBuf, self, buffer)
           ELSE IF w.val \div 65536 # ReadBuffer_len(buffer)
                THEN LinkResult("ValueError", <<>>, NoBuf, self, buffer)
           ELSE
    Only({ IF e.err # "" THEN LinkResult(e.err, <<>>, NoBuf, self, buffer)
           ELSE IF ReadBuffer_bool(e.buf)
                THEN LinkResult("ValueError", <<>>, NoBuf, self, buffer)
           ELSE LinkResult("", e.val, e.buf, self, buffer)
    : e \in {REnvelope_read(envtype, buffer)} })
    : w \in {unpack(buffer, "<Q")} })
    : buffer \in {Locator_get_buffer(self.locator, file)} })

\* DICTIONARY_ENVELOPE of REnvelopeLink.py: nothing registers a class in it;
\* "" = no entry
DICTIONARY_ENVELOPE(typeID) == ""

\* REnvelopeLink.read_envelope (REnvelopeLink.py), which picks the class from
\* the typeID
REnvelopeLink_py_read_envelope(self, file) ==
    Only({ IF self.locator.size # self.length
           THEN LinkResult("NotImplementedError", <<>>, NoBuf, self, buffer)
           ELSE
    Only({ IF w.err # "" THEN LinkResult(w.err, <<>>, NoBuf, self, buffer)
           ELSE IF w.val \div 65536 # ReadBuffer_len(buffer)
                THEN LinkResult("ValueError", <<>>, NoBuf, self, buffer)
           ELSE IF DICTIONARY_ENVELOPE(w.val % 65536) = ""
                THEN LinkResult("ValueError", <<>>, NoBuf, self, buffer)
           ELSE
    Only({ IF e.err # "" THEN LinkResult(e.err, <<>>, NoBuf, self, buffer)
           ELSE IF ReadBuffer_bool(e.buf)
                THEN LinkResult("ValueError", <<>>, NoBuf, self, buffer)
           ELSE LinkResult("", e.val, e.buf, self, buffer)
    : e \in {REnvelope_py_read(DICTIONARY_ENVELOPE(w.val % 65536), buffer)} })
    : w \in {unpack(buffer, "<Q")} })
    : buffer \in {Locator_get_buffer(self.locator, file)} })

StandardLocator(size, offset) ==
    [cls |-> "StandardLocator", size |-> size, offset |-> offset]
LargeLocator(size, offset) ==
    [cls |-> "LargeLocator", size |-> size, offset |-> offset]
REnvelopeLink(length, locator) ==
    [cls |-> "REnvelopeLink", length |-> length, locator |-> locator]

\* ROOT3a3aRNTuple.get_header: the header envelope is read through the link
\* (fLenHeader, LargeLocator(fNBytesHeader, fSeekHeader))
ROOT3a3aRNTuple_get_header(self, file) ==
    REnvelopeLink_read_envelope(
        REnvelopeLink(self.fLenHeader,
                      LargeLocator(self.fNBytesHeader, self.fSeekHeader)),
        file, "HeaderEnvelope")

\* ROOT3a3aRNTuple.get_footer
ROOT3a3aRNTuple_get_footer(self, file) ==
    REnvelopeLink_read_envelope(
        REnvelopeLink(self.fLenFooter,
                      LargeLocator(self.fNBytesFooter, self.fSeekFooter)),
        file, "FooterEnvelope")

----------------------------------------------------------------------------
(* TDirectory, compressed blocks and TKey.read_object.  Names are sequences *)
(* of code points (str) or of bytes (bytes).                                *)

\* TUUID.update_members
TUUID_read(buffer) ==
    Only({ IF v.err # "" THEN v ELSE
    Only({ IF d.err # "" THEN d
           ELSE Ok([cls |-> "TUUID", fVersion |-> v.val, fUUID |-> d.val], d.buf)
    : d \in {consume(v.buf, 16)} })
    : v \in {unpack(buffer, ">h")} })

\* TDirectory_header_v622.read
TDirectory_header_v622_read(buffer) ==
    Only({ IF m.err # "" THEN m
           ELSE Ok([cls |-> "TDirectory_header_v622", fVersion |-> m.val[1],
                    fDatimeC |-> m.val[2], fDatimeM |-> m.val[3],
                    fNbytesKeys |-> m.val[4], fNbytesName |-> m.val[5]], m.buf)
    : m \in {ReadConstructors(<<">h", ">I", ">I", ">i", ">i">>, 1, <<>>, buffer)} })

\* is_large of a header that is never large
header_is_large_never(self) == FALSE

\* TDirectory_header_v622.version, is_large
header_version(self) == self.fVersion % 1000
header_is_large(self) == self.fVersion > 1000

\* TDirectory.read_members and the construction of the TDirectory
TDirectory_read(buffer) ==
    Only({ IF h.err # "" THEN h ELSE
    Only({ IF k.err # "" THEN k ELSE
    Only({ IF u.err # "" THEN u ELSE
    Only({ IF rest.err # "" THEN rest
           ELSE Ok([cls |-> "TDirectory", header |-> h.val,
                    fSeekDir |-> k.val[1], fSeekParent |-> k.val[2],
                    fSeekKeys |-> k.val[3], fUUID |-> u.val], rest.buf)
    : rest \in {IF header_is_large(h.val) THEN Ok(<<>>, u.buf)
                ELSE ReadBuffer_getitem(u.buf, 12)} })
    : u \in {IF header_version(h.val) > 1 THEN TUUID_read(k.buf) ELSE Ok(None, k.buf)} })
    : k \in {IF header_is_large(h.val)
             THEN ReadConstructors(<<">q", ">q", ">q">>, 1, <<>>, h.buf)
             ELSE ReadConstructors(<<">i", ">i", ">i">>, 1, <<>>, h.buf)} })
    : h \in {TDirectory_header_v622_read(buffer)} })

RECURSIVE ReplaceAll(_, _, _)
\* str.replace(old, new)
ReplaceAll(str, old, new) ==
    IF Len(str) < Len(old) THEN str
    ELSE IF SubSeq(str, 1, Len(old)) = old
    THEN new \o ReplaceAll(SubSeq(str, Len(old) + 1, Len(str)), old, new)
    ELSE <<Head(str)>> \o ReplaceAll(Tail(str), old, new)

\* normalize: ":" "<" ">" "," become "3a" "3c" "3e" "2c", " " becomes "_",
\* then "const_" is dropped
normalize(name) ==
    ReplaceAll(
     ReplaceAll(
      ReplaceAll(
       ReplaceAll(
        ReplaceAll(
         ReplaceAll(name, <<58>>, <<51, 97>>),
         <<60>>, <<51, 99>>),
        <<62>>, <<51, 101>>),
       <<44>>, <<50, 99>>),
      <<32>>, <<95>>),
     <<99, 111, 110, 115, 116, 95>>, <<>>)

\* DICTIONARY: the entries of the directory classes, "TDirectory" and
\* "TDirectoryFile"; "" stands for a missing key
DICTIONARY(typename) ==
    IF typename \in {<<84, 68, 105, 114, 101, 99, 116, 111, 114, 121>>,
                     <<84, 68, 105, 114, 101, 99, 116, 111, 114, 121,
                       70, 105, 108, 101>>}
    THEN "TDirectory" ELSE ""

\* objtype.read
Object_read(objtype, buffer) ==
    CASE objtype = "TDirectory" -> TDirectory_read(buffer)
      [] objtype = "TUUID" -> TUUID_read(buffer)

\* the unsigned value of bytes, least significant first
LittleEndian(bytes) == BigEndian(Reverse(bytes))

\* RCompressed.read: a block header of 9 bytes (codec tag of 2 bytes, a
\* method byte, the compressed and the uncompressed size, 3 bytes each, least
\* significant first), then the compressed payload
RCompressed_read(buffer) ==
    Only({ IF h.err # "" THEN h ELSE
    Only({ IF payload.err # "" THEN payload
           ELSE Ok([cls |-> "RCompressed",
                    header |-> [fAlgorithm |-> SubSeq(h.val, 1, 2),
                                fVersion |-> h.val[3],
                                fCompressedSize |-> LittleEndian(SubSeq(h.val, 4, 6)),
                                fUncompressedSize |-> LittleEndian(SubSeq(h.val, 7, 9))],
                    payload |-> payload.val], payload.buf)
    : payload \in {IF Len(h.val) < 9 THEN Fail("struct.error")
                   ELSE consume(h.buf, LittleEndian(SubSeq(h.val, 4, 6)))} })
    : h \in {consume(buffer, 9)} })

RECURSIVE RunLengthDecode(_)
\* the codec plugged in for the tag "ZL": the payload is a sequence of
\* (count, byte) pairs
RunLengthDecode(payload) ==
    IF Len(payload) < 2 THEN <<>>
    ELSE [i \in 1..payload[1] |-> payload[2]]
             \o RunLengthDecode(SubSeq(payload, 3, Len(payload)))

\* RCompressed.decompress: the codec of the tag is applied to the payload;
\* the output must have the declared uncompressed size
RCompressed_decompress(self) ==
    IF self.header.fAlgorithm # <<90, 76>> THEN Fail("CodecError")
    ELSE IF Len(RunLengthDecode(self.payload)) # self.header.fUncompressedSize
    THEN Fail("CodecError")
    ELSE Ok(RunLengthDecode(self.payload), NoBuf)

\* TString.read: a length byte and that many bytes
TString_read(buffer) ==
    Only({ IF n.err # "" THEN n ELSE
    Only({ IF d.err # "" THEN d
           ELSE Ok([cls |-> "TString", fString |-> d.val], d.buf)
    : d \in {IF Len(n.buf.data) < n.val THEN Fail("struct.error")
             ELSE consume(n.buf, n.val)} })
    : n \in {unpack(buffer, ">B")} })

\* TKey_header.read
TKey_header_read(buffer) ==
    Only({ IF m.err # "" THEN m
           ELSE Ok([cls |-> "TKey_header", fNbytes |-> m.val[1],
                    fVersion |-> m.val[2], fObjlen |-> m.val[3],
                    fDatime |-> m.val[4], fKeylen |-> m.val[5],
                    fCycle |-> m.val[6]], m.buf)
    : m \in {ReadConstructors(<<">i", ">h", ">i", ">I", ">h", ">h">>, 1, <<>>,
                              buffer)} })

\* TKey.read_members and the construction of the TKey
TKey_read(buffer) ==
    Only({ IF h.err # "" THEN h ELSE
    Only({ IF k.err # "" THEN k ELSE
    Only({ IF c.err # "" THEN c ELSE
    Only({ IF n.err # "" THEN n ELSE
    Only({ IF t.err # "" THEN t
           ELSE IF h.val.fVersion % 1000 \notin {2, 4} THEN Fail("ValueError")
           ELSE IF t.buf.relpos - buffer.relpos # h.val.fKeylen
                   /\ t.buf.relpos - buffer.relpos # h.val.fKeylen + 4
           THEN Fail("ValueError")
           ELSE Ok([cls |-> "TKey", header |-> h.val, fSeekKey |-> k.val[1],
                    fSeekPdir |-> k.val[2], fClassName |-> c.val.fString,
                    fName |-> n.val.fString, fTitle |-> t.val.fString], t.buf)
    : t \in {TString_read(n.buf)} })
    : n \in {TString_read(c.buf)} })
    : c \in {TString_read(k.buf)} })
    : k \in {IF h.val.fVersion < 1000
             THEN ReadConstructors(<<">i", ">i">>, 1, <<>>, h.buf)
             ELSE ReadConstructors(<<">q", ">q">>, 1, <<>>, h.buf)} })
    : h \in {TKey_header_read(buffer)} })

\* TKey.is_short
is_short(self) == self.header.fVersion < 1000

RECURSIVE ReadKeys(_, _, _)
\* the while loop of TKeyList.read_members
ReadKeys(nKeys, keys, buffer) ==
    IF Len(keys) >= nKeys THEN Ok(keys, buffer)
    ELSE
    Only({ IF key.err # "" THEN key
           ELSE ReadKeys(nKeys, Append(keys, key.val), key.buf)
    : key \in {TKey_read(buffer)} })

\* a count of all the keys
NumShort_every(keys) == Len(keys)

\* sum(1 for k in keys if k.is_short())
NumShort(keys) == Cardinality({ i \in 1..Len(keys) : is_short(keys[i]) })

\* TKeyList.read_members and the construction of the TKeyList
TKeyList_read(buffer) ==
    Only({ IF n.err # "" THEN n ELSE
    Only({ IF keys.err # "" THEN keys ELSE
    Only({ IF padding.err # "" THEN padding
           ELSE Ok([cls |-> "TKeyList", fKeys |-> keys.val,
                    padding |-> padding.val], padding.buf)
    : padding \in {IF NumShort(keys.val) = Len(keys.val)
                   THEN Ok(<<>>, keys.buf)
                   ELSE consume(keys.buf, 8 * NumShort(keys.val))} })
    : keys \in {ReadKeys(n.val, <<>>, n.buf)} })
    : n \in {unpack(buffer, ">i")} })

\* str.encode("ascii"), bytes.decode("ascii")
encode_ascii(str) ==
    IF \E i \in 1..Len(str) : str[i] >= 128 THEN Fail("UnicodeEncodeError")
    ELSE Ok(str, NoBuf)
decode_ascii(bytes) ==
    IF \E i \in 1..Len(bytes) : bytes[i] >= 128 THEN Fail("UnicodeDecodeError")
    ELSE Ok(bytes, NoBuf)

\* [k for k in self.fKeys if k.fName.fString == bkey]
Matches(fKeys, bkey) == SelectSeq(fKeys, LAMBDA k : k.fName = bkey)

\* max(matches, key=lambda k: k.header.fCycle): the first of the greatest
MaxCycle(matches) ==
    matches[CHOOSE i \in 1..Len(matches) :
                /\ \A j \in 1..Len(matches) :
                      matches[i].header.fCycle >= matches[j].header.fCycle
                /\ \A j \in 1..(i - 1) :
                      matches[j].header.fCycle < matches[i].header.fCycle]

\* TKeyList.__getitem__
TKeyList_getitem(self, key) ==
    Only({ IF bkey.err # "" THEN bkey
           ELSE IF Len(Matches(self.fKeys, bkey.val)) = 0 THEN Fail("KeyError")
           ELSE Ok(MaxCycle(Matches(self.fKeys, bkey.val)), NoBuf)
    : bkey \in {encode_ascii(key)} })

RECURSIVE DecodeNames(_, _)
\* TKeyList.__iter__, run to its end: the names of the keys, in order
DecodeNames(fKeys, names) ==
    IF Len(names) = Len(fKeys) THEN Ok(names, NoBuf)
    ELSE
    Only({ IF n.err # "" THEN n
           ELSE DecodeNames(fKeys, Append(names, n.val))
    : n \in {decode_ascii(fKeys[Len(names) + 1].fName)} })
TKeyList_iter(self) == DecodeNames(self.fKeys, <<>>)

----------------------------------------------------------------------------
(* Streamed objects.  An optional value is <<>> (None) or <<value>>.     *)

kByteCountMask == 1073741824
kNotAVersion == 32768
kIsReferenced == 16

\* v & mask # 0 for a mask of one bit and a two's complement v
HasBit(v, mask) == (v \div mask) % 2 = 1

\* local_refs[key] = name
SetItem(dict, key, name) ==
    {e \in dict : e.key # key} \cup {[key |-> key, name |-> name]}

\* local_refs.get(key, None)
GetOrNone(dict, key) ==
    IF \E e \in dict : e.key = key
    THEN <<(CHOOSE e \in dict : e.key = key).name>>
    ELSE <<>>

\* (fByteCount, tmp1, tmp2), _ = buffer.unpack(">iHH")
unpack_iHH(heap, self) ==
    IF Len(self.data) < 8 THEN FailH("struct.error", heap)
    ELSE
    Only({ IF rest.err # "" THEN rest
           ELSE OkH(<<BigEndianSigned(SubSeq(self.data, 1, 4)),
                      BigEndian(SubSeq(self.data, 5, 6)),
                      BigEndian(SubSeq(self.data, 7, 8))>>, rest.buf, rest.heap)
    : rest \in {ReadBuffer_from(heap, self, 8)} })

\* (fVersion, fUniqueID, fBits), buffer = buffer.unpack(">hii")
unpack_hii(heap, self) ==
    IF Len(self.data) < 10 THEN FailH("struct.error", heap)
    ELSE
    Only({ IF rest.err # "" THEN rest
           ELSE OkH(<<BigEndianSigned(SubSeq(self.data, 1, 2)),
                      BigEndianSigned(SubSeq(self.data, 3, 6)),
                      BigEndianSigned(SubSeq(self.data, 7, 10))>>, rest.buf,
                    rest.heap)
    : rest \in {ReadBuffer_from(heap, self, 10)} })

StreamHeader(fByteCount, fVersion, fClassName, fClassRef) ==
    [cls |-> "StreamHeader", fByteCount |-> fByteCount, fVersion |-> fVersion,
     fClassName |-> fClassName, fClassRef |-> fClassRef]

RECURSIVE ReadClassName(_, _, _)
\* the loop of StreamHeader.read that takes the class name up to its NUL
ReadClassName(heap, fClassName, buffer) ==
    Only({ IF chr.err # "" THEN chr
           ELSE IF chr.val = <<0>> THEN OkH(fClassName, chr.buf, chr.heap)
           ELSE ReadClassName(chr.heap, fClassName \o chr.val, chr.buf)
    : chr \in {ReadBuffer_consume(heap, buffer, 1)} })

\* fClassName.decode("ascii").isprintable()
decodes(fClassName) == \A i \in 1..Len(fClassName) : fClassName[i] < 128
isprintable(fClassName) ==
    \A i \in 1..Len(fClassName) : fClassName[i] \in 32..126

\* the new class branch of StreamHeader.read, buffer being past the 8 bytes
StreamHeader_new_class(fByteCount, buffer, heap) ==
    Only({ IF n.err # "" THEN n
           ELSE IF ~decodes(n.val) THEN FailH("UnicodeDecodeError", n.heap)
           ELSE IF ~isprintable(n.val) THEN FailH("ValueError", n.heap)
           ELSE OkH(StreamHeader(fByteCount, <<>>, <<n.val>>,
                                 <<buffer.relpos - 4>>),
                    n.buf,
                    [n.heap EXCEPT ![n.buf.local_refs] =
                        SetItem(@, buffer.relpos - 4, n.val)])
    : n \in {ReadClassName(heap, <<>>, buffer)} })

\* the class reference branch with a name for every key
StreamHeader_class_ref_lenient(fByteCount, tmp1, tmp2, buffer, heap) ==
    Only({
    Only({ IF fClassName = <<>>
           THEN OkH(StreamHeader(fByteCount, <<>>, <<<<>>>>, <<fClassRef>>),
                    buffer, heap)
           ELSE OkH(StreamHeader(fByteCount, <<>>, fClassName, <<fClassRef>>),
                    buffer, heap)
    : fClassName \in {GetOrNone(heap[buffer.local_refs], fClassRef)} })
    : fClassRef \in {(tmp1 % 32768) * 65536 + tmp2 - 2} })

\* the class reference branch of StreamHeader.read; fClassInfo is
\* (tmp1 << 16) | tmp2 and tmp1 has its highest bit set
StreamHeader_class_ref(fByteCount, tmp1, tmp2, buffer, heap) ==
    Only({
    Only({ IF fClassName = <<>> THEN FailH("ValueError", heap)
           ELSE OkH(StreamHeader(fByteCount, <<>>, fClassName, <<fClassRef>>),
                    buffer, heap)
    : fClassName \in {GetOrNone(heap[buffer.local_refs], fClassRef)} })
    : fClassRef \in {(tmp1 % 32768) * 65536 + tmp2 - 2} })

\* StreamHeader.read
StreamHeader_read(heap, buffer) ==
    Only({ IF u.err # "" THEN u
           ELSE IF ~HasBit(u.val[1], kByteCountMask)
           THEN Only({ IF b.err # "" THEN b
                       ELSE OkH(StreamHeader(0, <<>>, <<>>, <<u.val[1]>>),
                                b.buf, b.heap)
                : b \in {ReadBuffer_consume(u.heap, buffer, 4)} })
           ELSE IF ~HasBit(u.val[2], kNotAVersion)
           THEN Only({ IF b.err # "" THEN b
                       ELSE OkH(StreamHeader(u.val[1] - kByteCountMask,
                                             <<u.val[2]>>, <<>>, <<>>),
                                b.buf, b.heap)
                : b \in {ReadBuffer_consume(u.heap, buffer, 6)} })
           ELSE Only({ IF b.err # "" THEN b
                       ELSE IF u.val[2] = 65535 /\ u.val[3] = 65535
                       THEN StreamHeader_new_class(u.val[1] - kByteCountMask,
                                                   b.buf, b.heap)
                       ELSE StreamHeader_class_ref(u.val[1] - kByteCountMask,
                                                   u.val[2], u.val[3], b.buf,
                                                   b.heap)
                : b \in {ReadBuffer_consume(u.heap, buffer, 8)} })
    : u \in {unpack_iHH(heap, buffer)} })

\* TObject.read_members
TObject_read_members(heap, buffer) ==
    Only({ IF m.err # "" THEN m
           ELSE IF HasBit(m.val[3], kIsReferenced)
           THEN Only({ IF pidf.err # "" THEN pidf
                       ELSE OkH(m.val \o <<<<pidf.val>>>>, pidf.buf, pidf.heap)
                : pidf \in {ReadBuffer_unpack(m.heap, m.buf, ">H")} })
           ELSE OkH(m.val \o <<<<>>>>, m.buf, m.heap)
    : m \in {unpack_hii(heap, buffer)} })

\* "TObject" and "TLeafI" as bytes
TObjectName == <<84, 79, 98, 106, 101, 99, 116>>
TLeafIName == <<84, 76, 101, 97, 102, 73>>

\* _read_all_members(TObject, buffer), and TObject(**members)
TObject_read(heap, buffer) ==
    Only({ IF h.err # "" THEN h
           ELSE IF h.val.fByteCount = 0 THEN FailH("ValueError", h.heap)
           ELSE IF h.val.fClassName \notin {<<>>, <<<<>>>>}
                   /\ normalize(h.val.fClassName[1]) # TObjectName
           THEN FailH("ValueError", h.heap)
           ELSE
    Only({ IF m.err # "" THEN m
           ELSE IF m.buf.relpos # buffer.relpos + h.val.fByteCount + 4
           THEN FailH("ValueError", m.heap)
           ELSE OkH([cls |-> "TObject", fVersion |-> m.val[1],
                     fUniqueID |-> m.val[2], fBits |-> m.val[3],
                     pidf |-> m.val[4]], m.buf, m.heap)
    : m \in {TObject_read_members(h.heap, h.buf)} })
    : h \in {StreamHeader_read(heap, buffer)} })

\* DICTIONARY: the entry of the streamed class "TObject"; "" stands for a
\* missing key
DICTIONARY_streamed(clsname) == IF clsname = TObjectName THEN "TObject" ELSE ""

\* read_streamed_item from "Now actually read the object"; itemheader is what
\* the look ahead returned and heap the dicts after it
read_streamed_object(itemheader, heap, buffer) ==
    Only({
    Only({ IF remaining.err # "" THEN remaining ELSE
    Only({ IF item.err # "" THEN item
           ELSE IF ReadBuffer_bool(item.buf) THEN FailH("ValueError", item.heap)
           ELSE IF item.heap[item.buf.local_refs]
                       # item.heap[remaining.buf.local_refs]
           THEN FailH("AssertionError", item.heap)
           ELSE OkH([item |-> item.val, buffer |-> item.buf], remaining.buf,
                    item.heap)
    : item \in {TObject_read(remaining.heap, slice.buf)} })
    : remaining \in {ReadBuffer_from(slice.heap, buffer,
                                     itemheader.fByteCount + 4)} })
    : slice \in {ReadBuffer_upto(heap, buffer, itemheader.fByteCount + 4)} })

\* read_streamed_item
read_streamed_item(heap, buffer) ==
    Only({ IF h.err # "" THEN h
           ELSE IF h.val.fByteCount = 0 /\ h.val.fClassRef # <<>>
           THEN Only({ IF item.err # "" THEN item
                       ELSE OkH([item |-> item.val, buffer |-> item.buf],
                                item.buf, item.heap)
                : item \in {StreamHeader_read(h.heap, buffer)} })
           ELSE IF h.val.fClassName \in {<<>>, <<<<>>>>}
           THEN FailH("ValueError", h.heap)
           ELSE IF DICTIONARY_streamed(normalize(h.val.fClassName[1])) = ""
           THEN FailH(IF normalize(h.val.fClassName[1]) = TLeafIName
                      THEN "NotImplementedError" ELSE "ValueError", h.heap)
           ELSE read_streamed_object(h.val, h.heap, buffer)
    : h \in {StreamHeader_read(heap, buffer)} })

\* the two files that define _read_all_members
Revisions == {"streamedobject.py", "TObject.py"}

\* the streamed classes read here; a class whose name starts with "TLeaf" is
\* built from the streamer info of a file and is taken to have no members
StreamedClasses ==
    {"TObject", "TNamed", "TAtt3D", "ROOT3a3aTIOFeatures", "TLeafI"}

\* cls.__name__ as bytes
TNamedName == <<84, 78, 97, 109, 101, 100>>
TAtt3DName == <<84, 65, 116, 116, 51, 68>>
TIOFeaturesName ==
    <<82, 79, 79, 84, 51, 97, 51, 97, 84, 73, 79, 70, 101, 97, 116, 117, 114,
      101, 115>>
class_name(cls) ==
    CASE cls = "TObject" -> TObjectName
      [] cls = "TNamed" -> TNamedName
      [] cls = "TAtt3D" -> TAtt3DName
      [] cls = "ROOT3a3aTIOFeatures" -> TIOFeaturesName
      [] cls = "TLeafI" -> TLeafIName

\* reversed(cls.__bases__) without StreamedObject
bases(cls) == IF cls = "TNamed" THEN <<"TObject">> ELSE <<>>

\* str.startswith(prefix)
startswith(str, prefix) ==
    Len(prefix) <= Len(str) /\ SubSeq(str, 1, Len(prefix)) = prefix

\* _auto_TObject_base
auto_TObject_base(heap, buffer) ==
    Only({ IF version.err # "" THEN version
           ELSE IF version.val < 64
           THEN OkH(StreamHeader(0, <<version.val>>, <<>>, <<>>), buffer,
                    version.heap)
           ELSE StreamHeader_read(version.heap, buffer)
    : version \in {ReadBuffer_unpack(heap, buffer, ">h")} })

\* the header that _read_all_members starts with
read_itemheader(rev, cls, heap, buffer, indent) ==
    IF cls = "TObject" /\ indent > 0 THEN auto_TObject_base(heap, buffer)
    ELSE
    Only({ IF h.err # "" THEN h
           ELSE IF rev = "streamedobject.py" /\ h.val.fByteCount = 0
           THEN FailH("ValueError", h.heap)
           ELSE h
    : h \in {StreamHeader_read(heap, buffer)} })

\* a class name check that exempts no class
class_name_differs_strict(rev, cls, itemheader) ==
    /\ itemheader.fClassName \notin {<<>>, <<<<>>>>}
    /\ normalize(itemheader.fClassName[1]) # class_name(cls)

\* the class name check of _read_all_members
class_name_differs(rev, cls, itemheader) ==
    /\ itemheader.fClassName \notin {<<>>, <<<<>>>>}
    /\ normalize(itemheader.fClassName[1]) # class_name(cls)
    /\ ~(rev = "streamedobject.py"
            /\ startswith(class_name(cls), <<84, 76, 101, 97, 102>>))

\* a position check at every depth
position_differs_nested(indent, relpos, end_position) ==
    relpos # end_position

\* the position check of _read_all_members
position_differs(indent, relpos, end_position) ==
    indent = 0 /\ relpos # end_position

\* TString.read on a buffer with local references
TString_read_refs(heap, buffer) ==
    Only({ IF n.err # "" THEN n ELSE
    Only({ IF d.err # "" THEN d
           ELSE OkH([cls |-> "TString", fString |-> d.val], d.buf, d.heap)
    : d \in {IF Len(n.buf.data) < n.val THEN FailH("struct.error", n.heap)
             ELSE ReadBuffer_consume(n.heap, n.buf, n.val)} })
    : n \in {ReadBuffer_unpack(heap, buffer, ">B")} })

\* ROOT3a3aTIOFeatures.update_members
TIOFeatures_update_members(members, heap, buffer) ==
    Only({ IF fIOBits.err # "" THEN fIOBits
           ELSE IF fIOBits.val > 0
           THEN Only({ IF extra.err # "" THEN extra
                       ELSE OkH(members \o <<fIOBits.val, <<extra.val>>>>,
                                extra.buf, extra.heap)
                : extra \in {ReadBuffer_unpack(fIOBits.heap, fIOBits.buf, ">i")} })
           ELSE OkH(members \o <<fIOBits.val, <<>>>>, fIOBits.buf, fIOBits.heap)
    : fIOBits \in {ReadBuffer_unpack(heap, buffer, ">B")} })

\* cls.update_members, cls.read_members: the members are kept in the order
\* they are read
update_members(cls, members, heap, buffer) ==
    CASE cls = "TObject" ->
            Only({ IF m.err # "" THEN m
                   ELSE OkH(members \o m.val, m.buf, m.heap)
            : m \in {TObject_read_members(heap, buffer)} })
      [] cls = "TNamed" ->
            Only({ IF fName.err # "" THEN fName ELSE
            Only({ IF fTitle.err # "" THEN fTitle
                   ELSE OkH(members \o <<fName.val, fTitle.val>>, fTitle.buf,
                            fTitle.heap)
            : fTitle \in {TString_read_refs(fName.heap, fName.buf)} })
            : fName \in {TString_read_refs(heap, buffer)} })
      [] cls = "ROOT3a3aTIOFeatures" ->
            TIOFeatures_update_members(members, heap, buffer)
      [] OTHER -> OkH(members, buffer, heap)

RECURSIVE read_all_members(_, _, _, _, _)
RECURSIVE read_base_members(_, _, _, _, _, _, _)
\* _read_all_members(cls, buffer, indent) as the file rev defines it
read_all_members(rev, cls, heap, buffer, indent) ==
    Only({ IF itemheader.err # "" THEN itemheader
           ELSE IF class_name_differs(rev, cls, itemheader.val)
           THEN FailH("ValueError", itemheader.heap)
           ELSE
    Only({ IF b.err # "" THEN b ELSE
    Only({ IF m.err # "" THEN m
           ELSE IF position_differs(indent, m.buf.relpos,
                       buffer.relpos + itemheader.val.fByteCount + 4)
           THEN FailH("ValueError", m.heap)
           ELSE m
    : m \in {update_members(cls, b.val, b.heap, b.buf)} })
    : b \in {read_base_members(rev, bases(cls), 1, <<>>, itemheader.heap,
                               itemheader.buf, indent)} })
    : itemheader \in {read_itemheader(rev, cls, heap, buffer, indent)} })
\* the loop over the bases in _read_all_members
read_base_members(rev, bs, i, members, heap, buffer, indent) ==
    IF i > Len(bs) THEN OkH(members, buffer, heap)
    ELSE
    Only({ IF r.err # "" THEN r
           ELSE read_base_members(rev, bs, i + 1, members \o r.val, r.heap,
                                  r.buf, indent)
    : r \in {read_all_members(rev, bs[i], heap, buffer, indent + 1)} })

\* StreamedObject.read
StreamedObject_read(rev, cls, heap, buffer) ==
    Only({ IF m.err # "" THEN m
           ELSE OkH([cls |-> cls, members |-> m.val], m.buf, m.heap)
    : m \in {read_all_members(rev, cls, heap, buffer, 0)} })

\* Uninterpreted.read
Uninterpreted_read(heap, buffer) ==
    Only({ IF header.err # "" THEN header
           ELSE
    Only({ IF data.err # "" THEN data
           ELSE OkH([cls |-> "Uninterpreted", header |-> header.val,
                     data |-> data.val], data.buf, data.heap)
    : data \in {ReadBuffer_consume(header.heap, header.buf,
                                    header.val.fByteCount - 4)} })
    : header \in {StreamHeader_read(heap, buffer)} })

----------------------------------------------------------------------------
(* Containers.  A dtype is the struct format of one item. *)

\* np.frombuffer(data, dtype=dtype, count=count) for data of count items
frombuffer(data, dtype, count) ==
    [i \in 1..count |->
        struct_unpack(dtype, SubSeq(data, (i - 1) * calcsize(dtype) + 1,
                                    i * calcsize(dtype)))]

\* _BasicArrayReadMethod.read (serializable.py), which ties the pad byte to
\* the size
BasicArrayReadMethod_read(self, members, buffer) ==
    Only({ IF pad.err # "" THEN pad
           ELSE IF ~( (members[self.sizevar] = 0 /\ pad.val = <<0>>)
                      \/ (members[self.sizevar] > 0 /\ pad.val = <<1>>) )
           THEN Fail("ValueError")
           ELSE
    Only({ IF data.err # "" THEN data
           ELSE Ok((self.name :> frombuffer(data.val, self.dtype,
                                            members[self.sizevar])) @@ members,
                   data.buf)
    : data \in {consume(pad.buf,
                        members[self.sizevar] * calcsize(self.dtype))} })
    : pad \in {consume(buffer, 1)} })

\* the array of _ArrayReader.__call__ after the pad byte, if any
ArrayReader_items(self, members, buffer) ==
    Only({ IF data.err # "" THEN data
           ELSE Ok((self.name :> frombuffer(data.val, self.dtype,
                                            members[self.sizevar])) @@ members,
                   data.buf)
    : data \in {consume(buffer,
                        members[self.sizevar] * calcsize(self.dtype))} })

\* _ArrayReader.__call__
ArrayReader_call(self, members, buffer) ==
    IF ~self.haspad THEN ArrayReader_items(self, members, buffer)
    ELSE
    Only({ IF pad.err # "" THEN pad
           ELSE IF pad.val = <<0>>
           THEN Ok((self.name :> <<>>) @@ members, pad.buf)
           ELSE IF pad.val # <<1>> THEN Fail("ValueError")
           ELSE IF members[self.sizevar] = 0 THEN Fail("ValueError")
           ELSE ArrayReader_items(self, members, pad.buf)
    : pad \in {consume(buffer, 1)} })

----------------------------------------------------------------------------
(* RNTuple: the schema and the pages *)

\* SchemaDescription.from_envelopes: the column descriptions of the header
\* followed by those of the schema extension of the footer
SchemaDescription_columnDescriptions(headerEnvelope, footerEnvelope) ==
    headerEnvelope.columnDescriptions.items
        \o footerEnvelope.schemaExtension.columnDescriptions.items

\* RNTuple.schemaDescription
schemaDescription(self) ==
    [columnDescriptions |->
        SchemaDescription_columnDescriptions(self.headerEnvelope,
                                             self.footerEnvelope)]

\* abs(x); ceil(x / 8) for an integer x
abs(x) == IF x < 0 THEN -x ELSE x
ceil8(x) == -((-x) \div 8)

\* uncompressed_size without abs()
uncompressed_size_signed(page_description, column_description) ==
    ceil8(page_description.fNElements * column_description.fBitsOnStorage)

\* uncompressed_size in get_extended_page_descriptions
uncompressed_size(page_description, column_description) ==
    ceil8(abs(page_description.fNElements) * column_description.fBitsOnStorage)

InterpretablePage(pageDescription, uncompressedSize, columnType) ==
    [pageDescription |-> pageDescription,
     uncompressedSize |-> uncompressedSize, columnType |-> columnType]

\* zip(a, b): the pairs up to the end of the shorter
zip(a, b) ==
    [i \in 1..(IF Len(a) < Len(b) THEN Len(a) ELSE Len(b)) |-> <<a[i], b[i]>>]

\* RNTuple.get_extended_page_descriptions
get_extended_page_descriptions(self) ==
    [e \in 1..Len(self.pagelistEnvelopes) |->
      [c \in 1..Len(self.pagelistEnvelopes[e].pageLocations.items) |->
        [k \in 1..Len(zip(self.pagelistEnvelopes[e].pageLocations.items[c].items,
                          schemaDescription(self).columnDescriptions)) |->
          [q \in 1..Len(self.pagelistEnvelopes[e].pageLocations.items[c]
                            .items[k].items) |->
            InterpretablePage(
              self.pagelistEnvelopes[e].pageLocations.items[c].items[k].items[q],
              uncompressed_size(
                self.pagelistEnvelopes[e].pageLocations.items[c].items[k].items[q],
                schemaDescription(self).columnDescriptions[k]),
              schemaDescription(self).columnDescriptions[k].fColumnType)]]]]

RECURSIVE find_in_column(_, _, _, _, _)
\* the loop over the pages of a column in find_page: q is the page looked
\* at, offset the sum so far; the page found is given with its place
find_in_column(column, c, q, offset, cluster_local_offset) ==
    IF q > Len(column.items) THEN <<>>
    ELSE IF offset + column.items[q].fNElements > cluster_local_offset
    THEN <<[cluster |-> c, index |-> q, page |-> column.items[q]]>>
    ELSE find_in_column(column, c, q + 1, offset + column.items[q].fNElements,
                        cluster_local_offset)

RECURSIVE find_page_from(_, _, _, _)
\* the loop over the clusters in find_page
find_page_from(self, c, column_index, entry) ==
    IF c > Len(self.items) THEN [err |-> "", val |-> <<>>]
    ELSE IF column_index >= Len(self.items[c].items)
    THEN [err |-> "IndexError", val |-> <<>>]
    ELSE
    Only({ IF column.elementoffset <= entry
              /\ find_in_column(column, c, 1, 0,
                                entry - column.elementoffset) # <<>>
           THEN [err |-> "",
                 val |-> find_in_column(column, c, 1, 0,
                                        entry - column.elementoffset)]
           ELSE find_page_from(self, c + 1, column_index, entry)
    : column \in {self.items[c].items[column_index + 1]} })

\* PageLocations_Clusters.find_page; <<>> is None
find_page(self, column_index, entry) ==
    find_page_from(self, 1, column_index, entry)

----------------------------------------------------------------------------
(* Double32 *)

\* f">{'BHIQ'[(nbytes-1)//2]}"
Double32Format(nbytes) == <<">B", ">H", ">I", ">Q">>[(nbytes - 1) \div 2 + 1]

\* Double32Reader.__call__; factor, xmin and nbits are <<>> for None, and the
\* numbers here are integers
Double32Reader_call(self, members, buffer) ==
    IF self.factor = <<>> \/ self.xmin = <<>> \/ self.nbits = <<>>
    THEN Only({ IF val.err # "" THEN val
                ELSE Ok((self.fname :> val.val) @@ members, val.buf)
         : val \in {unpack(buffer, ">f")} })
    ELSE Only({ IF raw.err # "" THEN raw
                ELSE Ok((self.fname :> self.xmin[1] + self.factor[1] * raw.val)
                            @@ members, raw.buf)
         : raw \in {unpack(buffer,
                           Double32Format((self.nbits[1] + 7) \div 8))} })

----------------------------------------------------------------------------
(* Writers: the byte layouts the inputs are built from.  The repository    *)
(* only reads; these produce the files and buffers it is given.            *)

RECURSIVE LittleEndianBytes(_, _)
\* the n low bytes of v, least significant first (two's complement)
LittleEndianBytes(v, n) ==
    IF n = 0 THEN <<>> ELSE <<v % 256>> \o LittleEndianBytes(v \div 256, n - 1)

pack(fmt, v) ==
    IF fmt \in {"<Q", "<q", "<I", "<i", "<H", "<h", "<B"}
    THEN LittleEndianBytes(v, calcsize(fmt))
    ELSE Reverse(LittleEndianBytes(v, calcsize(fmt)))

RECURSIVE Concat(_)
Concat(seqs) == IF seqs = <<>> THEN <<>> ELSE Head(seqs) \o Concat(Tail(seqs))

Zeros(n) == [i \in 1..n |-> 0]
\* n bytes of unknown extension content
Junk(n) == [i \in 1..n |-> 170]

WriteStandardLocator(size, offset) == pack("<i", size) \o pack("<Q", offset)
\* a non-standard locator word with the given type bits, and 16 payload bytes
WriteNonStandardLocator(type) ==
    pack("<i", -2147483647 - 1 + type * 16777216 + 16) \o Zeros(16)
WriteLink(length, locator) == pack("<Q", length) \o locator
\* a Large locator: the non-standard word of type 1, a size and an offset
WriteLargeLocator(size, offset) ==
    SubSeq(WriteNonStandardLocator(1), 1, 4) \o pack("<Q", size)
        \o pack("<Q", offset)

\* a StreamHeader with a new class tag and the class name
WriteNewClass(fByteCount, name) ==
    pack(">i", kByteCountMask + fByteCount) \o <<255, 255, 255, 255>> \o name
        \o <<0>>
\* a StreamHeader with a reference to the class name registered under key
WriteClassRef(fByteCount, key) ==
    pack(">i", kByteCountMask + fByteCount)
        \o pack(">H", 32768 + (key + 2) \div 65536)
        \o pack(">H", (key + 2) % 65536)
\* a StreamHeader with a version
WriteVersioned(fByteCount, version) ==
    pack(">i", kByteCountMask + fByteCount) \o pack(">H", version)
\* the members of a TObject
WriteTObjectMembers(fBits) ==
    pack(">h", 1) \o pack(">i", 0) \o pack(">i", fBits)
        \o (IF HasBit(fBits, kIsReferenced) THEN pack(">H", 7) ELSE <<>>)

\* a TString
WriteTString(bytes) == <<Len(bytes)>> \o bytes

\* the bytes of a TKey after its fKeylen field is known
WriteTKeyBody(fVersion) ==
    (IF fVersion < 1000 THEN pack(">i", 807) \o pack(">i", 100)
     ELSE pack(">q", 807) \o pack(">q", 100))
        \o WriteTString(<<84, 68, 105, 114, 101, 99, 116, 111, 114, 121>>)
        \o WriteTString(<<65>>) \o WriteTString(<<>>)

\* a TKey whose fKeylen is off by dk
WriteTKey(fVersion, dk) ==
    pack(">i", 129) \o pack(">h", fVersion) \o pack(">i", 78) \o pack(">I", 5)
        \o pack(">h", 18 + Len(WriteTKeyBody(fVersion)) + dk) \o pack(">h", 1)
        \o WriteTKeyBody(fVersion)

\* a TDirectory of the given fVersion
WriteTDirectory(fVersion) ==
    pack(">h", fVersion) \o pack(">I", 5) \o pack(">I", 6) \o pack(">i", 7)
        \o pack(">i", 8)
        \o (IF fVersion > 1000
            THEN pack(">q", 100) \o pack(">q", 0) \o pack(">q", 200)
            ELSE pack(">i", 100) \o pack(">i", 0) \o pack(">i", 200))
        \o (IF fVersion % 1000 > 1 THEN pack(">h", 1) \o Junk(16) ELSE <<>>)
        \o (IF fVersion > 1000 THEN <<>> ELSE Zeros(12))

\* the length of the run of equal bytes a non-empty sequence starts with
RunAt(bytes) ==
    CHOOSE n \in 1..Len(bytes) :
        /\ \A i \in 1..n : bytes[i] = bytes[1]
        /\ n = Len(bytes) \/ bytes[n + 1] # bytes[1]

RECURSIVE RunLengthEncode(_)
RunLengthEncode(bytes) ==
    IF bytes = <<>> THEN <<>>
    ELSE <<RunAt(bytes), bytes[1]>>
             \o RunLengthEncode(SubSeq(bytes, RunAt(bytes) + 1, Len(bytes)))

\* a compressed block: header and payload
WriteRCompressed(tag, payload, uncompressed) ==
    tag \o <<1>> \o LittleEndianBytes(Len(payload), 3)
        \o LittleEndianBytes(uncompressed, 3) \o payload

\* a record frame whose size word is off by delta
WriteRecordFrame(payload, tail, delta) ==
    pack("<q", 8 + Len(payload) + Len(tail) + delta) \o payload \o tail

\* a list frame whose size word is off by delta
WriteListFrame(items, extra, tail, delta) ==
    LET body == Concat(items) \o extra \o tail IN
    pack("<q", -(12 + Len(body) + delta)) \o pack("<I", Len(items)) \o body

WriteClusterSummary(first, nEntriesAndFlag) ==
    WriteRecordFrame(pack("<Q", first) \o pack("<Q", nEntriesAndFlag), <<>>, 0)

WriteClusterGroup(link) ==
    WriteRecordFrame(pack("<Q", 0) \o pack("<Q", 22) \o pack("<I", 1) \o link,
                     <<>>, 0)

WritePageDescription(nElements, locator) == pack("<i", nElements) \o locator

\* the extra members of the page list of one column
WriteColumnMembers(elementoffset) ==
    pack("<q", elementoffset) \o (IF elementoffset >= 0 THEN pack("<I", 505) ELSE <<>>)

\* an envelope whose length field is off by delta; ck = <<>> leaves the checksum out
WriteEnvelope(typeID, payload, tail, ck, delta) ==
    pack("<Q", (8 + Len(payload) + Len(tail) + Len(ck) + delta) * 65536 + typeID)
        \o payload \o tail \o ck

WriteFooterPayload(headerChecksum, links) ==
    pack("<q", 0) \o pack("<Q", headerChecksum)
        \o WriteRecordFrame(<<>>, <<>>, 0)
        \o WriteListFrame([i \in 1..Len(links) |-> WriteClusterGroup(links[i])],
                          <<>>, <<>>, 0)

\* a page list of nClusters clusters of one column with one page each
WritePageListPayload(headerChecksum, nClusters) ==
    pack("<Q", headerChecksum)
        \o WriteListFrame([i \in 1..nClusters |-> WriteClusterSummary(0, 100)],
                          <<>>, <<>>, 0)
        \o WriteListFrame(
              [i \in 1..nClusters |->
                  WriteListFrame(
                      <<WriteListFrame(
                          <<WritePageDescription(-100, WriteStandardLocator(138, 409))>>,
                          WriteColumnMembers(0), <<>>, 0)>>,
                      <<>>, <<>>, 0)],
              <<>>, <<>>, 0)

----------------------------------------------------------------------------
(* Bounds of the inputs *)

\* bytes the caller has consumed before the object starts
MaxSkip == 1
\* unknown trailing bytes inside a frame or an envelope
MaxTail == 1
\* bytes that follow the frame or the envelope in the buffer
MaxAfter == 1
\* items of a list frame
MaxItems == 2
\* how far a declared size is off the true size
Deltas == {-1, 0, 1}

----------------------------------------------------------------------------
(* A reader applied to a buffer *)

FrameOps == {"RecordFrame.read", "ListFrame.read_as"}
EnvelopeOps == {"REnvelope.read", "REnvelope.read (REnvelope.py)"}

Reader(op, cls, itemtype) == [op |-> op, cls |-> cls, itemtype |-> itemtype]

RecordPayload(cls) ==
    CASE cls = "SchemaExtension" -> <<>>
      [] cls = "ClusterSummary" -> pack("<Q", 0) \o pack("<Q", 22)
      [] cls = "ClusterGroup" ->
            pack("<Q", 0) \o pack("<Q", 22) \o pack("<I", 1)
                \o WriteLink(244, WriteStandardLocator(244, 1409))

ListItems(itemtype, n) ==
    [i \in 1..n |->
        IF itemtype = "ClusterSummary" THEN WriteClusterSummary(0, 22)
        ELSE WritePageDescription(-22, WriteStandardLocator(176, 620))]

\* a ClusterSummary of 22 entries with a feature flag byte
WriteFlaggedClusterSummary(flag) ==
    WriteRecordFrame(pack("<Q", 0) \o SubSeq(pack("<Q", 22), 1, 7) \o <<flag>>,
                     <<>>, 0)

\* feature flags: sharded clusters, another bit, both
FeatureFlags == {1, 2, 3}

FlaggedInputs ==
    { [reader |-> Reader("RecordFrame.read", "ClusterSummary", ""),
       body |-> WriteFlaggedClusterSummary(flag) \o Zeros(a)] :
         flag \in FeatureFlags, a \in 0..MaxAfter }

RecordFrameInputs ==
    FlaggedInputs \cup
    { [reader |-> Reader("RecordFrame.read", c, ""),
       body |-> WriteRecordFrame(RecordPayload(c), Junk(t), d) \o Zeros(a)] :
         c \in RecordFrameClasses, t \in 0..MaxTail, d \in Deltas, a \in 0..MaxAfter }
    \cup
    \* a size word that is zero or negative, a locator of an unknown type,
    \* a buffer that ends inside the size word
    { [reader |-> Reader("RecordFrame.read", "ClusterSummary", ""), body |-> b] :
         b \in {pack("<q", 0) \o Zeros(16),
                WriteListFrame(<<>>, <<>>, <<>>, 0),
                Zeros(7)} }
    \cup
    { [reader |-> Reader("RecordFrame.read", "ClusterGroup", ""),
       body |-> WriteRecordFrame(
                    pack("<Q", 0) \o pack("<Q", 22) \o pack("<I", 1)
                        \o WriteLink(244, WriteNonStandardLocator(1)),
                    <<>>, 0)] }

ListFrameInputs ==
    { [reader |-> Reader("ListFrame.read_as", "ListFrame", "ClusterSummary"),
       body |-> WriteListFrame(ListItems("ClusterSummary", n), <<>>, Junk(t), d)
                    \o Zeros(a)] :
         n \in 0..MaxItems, t \in 0..MaxTail, d \in Deltas, a \in 0..MaxAfter }
    \cup
    { [reader |-> Reader("ListFrame.read_as", "PageLocations_Pages", "RPageDescription"),
       body |-> WriteListFrame(ListItems("RPageDescription", n),
                               WriteColumnMembers(eo), Junk(t), d) \o Zeros(a)] :
         n \in 0..MaxItems, eo \in {-1, 0}, t \in 0..MaxTail, d \in Deltas,
         a \in 0..MaxAfter }
    \cup
    \* a positive size word, an item count larger than the items present
    { [reader |-> Reader("ListFrame.read_as", "ListFrame", "ClusterSummary"),
       body |-> b] :
         b \in {WriteRecordFrame(Zeros(16), <<>>, 0),
                pack("<q", -36) \o pack("<I", 2) \o WriteClusterSummary(0, 22)} }

\* the frames above, read through RFrame.read_as
FrameAsInputs ==
    { [reader |-> Reader("RFrame.read_as", "RFrame",
                         IF in.reader.op = "RecordFrame.read"
                         THEN in.reader.cls ELSE in.reader.itemtype),
       body |-> in.body] :
        in \in { i \in RecordFrameInputs \cup ListFrameInputs :
                    i.reader.cls \in RecordFrameClasses \cup {"ListFrame"} } }

EnvelopePayload(cls) ==
    CASE cls = "HeaderEnvelope" -> <<>>
      [] cls = "FooterEnvelope" ->
            WriteFooterPayload(7, <<WriteLink(124, WriteStandardLocator(124, 597))>>)
      [] cls = "PageListEnvelope" -> WritePageListPayload(7, 1)

EnvelopeInputs ==
    { [reader |-> Reader(op, c, ""),
       body |-> WriteEnvelope(ty, EnvelopePayload(c), Junk(t), ck, d) \o Zeros(a)] :
         op \in EnvelopeOps, c \in EnvelopeClasses, ty \in 0..4, t \in 0..MaxTail,
         ck \in {<<>>, pack("<Q", 9)}, d \in Deltas, a \in 0..MaxAfter }

ReadInputs ==
    RecordFrameInputs \cup ListFrameInputs \cup EnvelopeInputs
        \cup FrameAsInputs

NoResult == [err |-> "not called", val |-> <<>>, buf |-> NoBuf]

ReadInit ==
    \E in \in ReadInputs, k \in 0..MaxSkip, abspos \in {-1, 254} :
        /\ rd_pc = "start"
        /\ rd_reader = in.reader
        /\ rd_skip = k
        /\ rd_buffer = ReadBuffer(Junk(k) \o in.body, abspos, 0)
        /\ rd_result = NoResult

\* the caller consumes what precedes the object
Skip ==
    /\ rd_pc = "start"
    /\ rd_buffer' = consume(rd_buffer, rd_skip).buf
    /\ rd_pc' = "ready"
    /\ UNCHANGED <<rd_reader, rd_skip, rd_result>>

ReadRecordFrame ==
    /\ rd_pc = "ready"
    /\ rd_reader.op = "RecordFrame.read"
    /\ rd_result' = RecordFrame_read(rd_reader.cls, rd_buffer)
    /\ rd_pc' = "done"
    /\ UNCHANGED <<rd_buffer, rd_reader, rd_skip>>

ReadListFrame ==
    /\ rd_pc = "ready"
    /\ rd_reader.op = "ListFrame.read_as"
    /\ rd_result' = ListFrame_read_as(rd_reader.cls, rd_reader.itemtype, rd_buffer)
    /\ rd_pc' = "done"
    /\ UNCHANGED <<rd_buffer, rd_reader, rd_skip>>

ReadFrameAs ==
    /\ rd_pc = "ready"
    /\ rd_reader.op = "RFrame.read_as"
    /\ rd_result' = RFrame_read_as(rd_reader.itemtype, rd_buffer, 0)
    /\ rd_pc' = "done"
    /\ UNCHANGED <<rd_buffer, rd_reader, rd_skip>>

ReadEnvelope ==
    /\ rd_pc = "ready"
    /\ rd_reader.op = "REnvelope.read"
    /\ rd_result' = REnvelope_read(rd_reader.cls, rd_buffer)
    /\ rd_pc' = "done"
    /\ UNCHANGED <<rd_buffer, rd_reader, rd_skip>>

ReadEnvelopePy ==
    /\ rd_pc = "ready"
    /\ rd_reader.op = "REnvelope.read (REnvelope.py)"
    /\ rd_result' = REnvelope_py_read(rd_reader.cls, rd_buffer)
    /\ rd_pc' = "done"
    /\ UNCHANGED <<rd_buffer, rd_reader, rd_skip>>

ReadIdle ==
    /\ rd_pc = "idle"
    /\ rd_reader = Reader("", "", "")
    /\ rd_skip = 0
    /\ rd_buffer = NoBuf
    /\ rd_result = NoResult

----------------------------------------------------------------------------
(* An envelope link followed into a file *)

Versions == {"envelope_base.py", "REnvelopeLink.py"}

\* a file that holds one envelope at offset pad, followed by a zero bytes, and
\* a link to it whose locator size is off by ds and whose length exceeds the
\* locator size by c (c > 0: the envelope is stored compressed)
LinkInput(version, cls, env, pad, a, ds, c) ==
    [call |-> [version |-> version, envtype |-> cls],
     file |-> Zeros(pad) \o env \o Zeros(a),
     link |-> REnvelopeLink(Len(env) + ds + c,
                            StandardLocator(Len(env) + ds, pad))]

LinkInputs ==
    { LinkInput(v, cls, WriteEnvelope(ty, EnvelopePayload(cls), Junk(t),
                                      pack("<Q", 9), d),
                pad, a, ds, c) :
        v \in Versions, cls \in EnvelopeClasses, ty \in 1..3, t \in 0..MaxTail,
        d \in Deltas, pad \in {0, 3}, a \in 0..MaxAfter, ds \in Deltas,
        c \in {0, 38} }

NoLinkResult ==
    [err |-> "not called", val |-> <<>>, buf |-> NoBuf, fetched |-> 0,
     fetches |-> <<>>]

LinkInit ==
    \E in \in LinkInputs :
        /\ lk_pc = "ready"
        /\ lk_file = in.file
        /\ lk_link = in.link
        /\ lk_call = in.call
        /\ lk_result = NoLinkResult

LinkIdle ==
    /\ lk_pc = "idle"
    /\ lk_file = <<>>
    /\ lk_link = REnvelopeLink(0, StandardLocator(0, 0))
    /\ lk_call = [version |-> "", envtype |-> ""]
    /\ lk_result = NoLinkResult

FollowLink ==
    /\ lk_pc = "ready"
    /\ lk_call.version = "envelope_base.py"
    /\ lk_result' = REnvelopeLink_read_envelope(lk_link, lk_file, lk_call.envtype)
    /\ lk_pc' = "done"
    /\ UNCHANGED <<lk_file, lk_link, lk_call>>

FollowLinkPy ==
    /\ lk_pc = "ready"
    /\ lk_call.version = "REnvelopeLink.py"
    /\ lk_result' = REnvelopeLink_py_read_envelope(lk_link, lk_file)
    /\ lk_pc' = "done"
    /\ UNCHANGED <<lk_file, lk_link, lk_call>>

----------------------------------------------------------------------------
(* RNTuple.from_anchor *)

\* cluster groups of the footer
MaxGroups == 2
\* bytes of the file before the header envelope
FilePad == 3

\* a cluster group of the file: the headerChecksum its page list envelope
\* holds, and how its page list link is written
GroupKinds == [ph : {7, 8}, fault : {"", "compressed", "short"}]
GroupLists == UNION { [1..n -> GroupKinds] : n \in 0..MaxGroups }

HeaderBytes(hd) == WriteEnvelope(1, <<>>, <<>>, pack("<Q", 7), hd)
PageListBytes(ph) ==
    WriteEnvelope(3, WritePageListPayload(ph, 1), <<>>, pack("<Q", 9), 0)
FooterLinks(groups, first) ==
    [i \in 1..Len(groups) |->
        WriteLink(
            IF groups[i].fault = "short"
            THEN Len(PageListBytes(7)) - 1 ELSE Len(PageListBytes(7)),
            WriteStandardLocator(
                CASE groups[i].fault = "short" -> Len(PageListBytes(7)) - 1
                  [] groups[i].fault = "compressed" -> Len(PageListBytes(7)) - 38
                  [] OTHER -> Len(PageListBytes(7)),
                first + (i - 1) * Len(PageListBytes(7))))]
FooterBytes(ft, fh, groups, first) ==
    WriteEnvelope(ft, WriteFooterPayload(fh, FooterLinks(groups, first)), <<>>,
                  pack("<Q", 9), 0)

\* the file: padding, header envelope, footer envelope, page list envelopes
TupleFile(hd, ft, fh, groups) ==
    Zeros(FilePad) \o HeaderBytes(hd)
        \o FooterBytes(ft, fh, groups,
                       FilePad + Len(HeaderBytes(hd))
                           + Len(FooterBytes(ft, fh, groups, 0)))
        \o Concat([i \in 1..Len(groups) |-> PageListBytes(groups[i].ph)])

TupleAnchor(hd, ft, fh, groups) ==
    [fSeekHeader |-> FilePad,
     fNBytesHeader |-> Len(HeaderBytes(hd)),
     fLenHeader |-> Len(HeaderBytes(hd)),
     fSeekFooter |-> FilePad + Len(HeaderBytes(hd)),
     fNBytesFooter |-> Len(FooterBytes(ft, fh, groups, 0)),
     fLenFooter |-> Len(FooterBytes(ft, fh, groups, 0))]

TupleInit ==
    \E hd \in {0, 1}, ft \in {2, 3}, fh \in {7, 8}, groups \in GroupLists :
        /\ nt_pc = "get_header"
        /\ nt_file = TupleFile(hd, ft, fh, groups)
        /\ nt_anchor = TupleAnchor(hd, ft, fh, groups)
        /\ nt_fetches = <<>>
        /\ nt_header = None
        /\ nt_footer = None
        /\ nt_pagelists = <<>>
        /\ nt_index = 1
        /\ nt_error = ""

TupleIdle ==
    /\ nt_pc = "idle"
    /\ nt_file = <<>>
    /\ nt_anchor = None
    /\ nt_fetches = <<>>
    /\ nt_header = None
    /\ nt_footer = None
    /\ nt_pagelists = <<>>
    /\ nt_index = 1
    /\ nt_error = ""

\* headerEnvelope = anchor.get_header(fetch_data)
GetHeader ==
    /\ nt_pc = "get_header"
    /\ \E r \in {ROOT3a3aRNTuple_get_header(nt_anchor, nt_file)} :
        /\ nt_fetches' = nt_fetches \o r.fetches
        /\ IF r.err # ""
           THEN nt_pc' = "raised" /\ nt_error' = r.err /\ UNCHANGED nt_header
           ELSE nt_pc' = "get_footer" /\ nt_header' = r.val /\ UNCHANGED nt_error
    /\ UNCHANGED <<nt_file, nt_anchor, nt_footer, nt_pagelists, nt_index>>

\* footerEnvelope = anchor.get_footer(fetch_data)
GetFooter ==
    /\ nt_pc = "get_footer"
    /\ \E r \in {ROOT3a3aRNTuple_get_footer(nt_anchor, nt_file)} :
        /\ nt_fetches' = nt_fetches \o r.fetches
        /\ IF r.err # ""
           THEN nt_pc' = "raised" /\ nt_error' = r.err /\ UNCHANGED nt_footer
           ELSE nt_pc' = "check_footer" /\ nt_footer' = r.val /\ UNCHANGED nt_error
    /\ UNCHANGED <<nt_file, nt_anchor, nt_header, nt_pagelists, nt_index>>

\* if footerEnvelope.headerChecksum != headerEnvelope.checksum: raise
CheckFooter ==
    /\ nt_pc = "check_footer"
    /\ IF nt_footer.args.headerChecksum # nt_header.checksum
       THEN nt_pc' = "raised" /\ nt_error' = "ValueError"
       ELSE nt_pc' = "get_pagelists" /\ UNCHANGED nt_error
    /\ UNCHANGED <<nt_file, nt_anchor, nt_fetches, nt_header, nt_footer,
                   nt_pagelists, nt_index>>

\* a round of get_pagelist that leaves out a link it could not read and goes
\* on with the next one
GetPagelist_skip ==
    /\ nt_pc = "get_pagelists"
    /\ nt_index <= Len(nt_footer.args.clusterGroups.items)
    /\ \E r \in {REnvelopeLink_read_envelope(
                    nt_footer.args.clusterGroups.items[nt_index].pagelistLink,
                    nt_file, "PageListEnvelope")} :
        /\ nt_fetches' = nt_fetches \o r.fetches
        /\ nt_pagelists' = IF r.err # "" THEN nt_pagelists
                           ELSE Append(nt_pagelists, r.val)
        /\ nt_index' = nt_index + 1
        /\ UNCHANGED <<nt_pc, nt_error>>
    /\ UNCHANGED <<nt_file, nt_anchor, nt_header, nt_footer>>

\* one round of FooterEnvelope.get_pagelist, which from_anchor calls as
\* get_pagelists: g.pagelistLink.read_envelope(fetch_data, PageListEnvelope)
GetPagelist ==
    /\ nt_pc = "get_pagelists"
    /\ nt_index <= Len(nt_footer.args.clusterGroups.items)
    /\ \E r \in {REnvelopeLink_read_envelope(
                    nt_footer.args.clusterGroups.items[nt_index].pagelistLink,
                    nt_file, "PageListEnvelope")} :
        /\ nt_fetches' = nt_fetches \o r.fetches
        /\ IF r.err # ""
           THEN /\ nt_pc' = "raised"
                /\ nt_error' = r.err
                /\ UNCHANGED <<nt_pagelists, nt_index>>
           ELSE /\ nt_pagelists' = Append(nt_pagelists, r.val)
                /\ nt_index' = nt_index + 1
                /\ UNCHANGED <<nt_pc, nt_error>>
    /\ UNCHANGED <<nt_file, nt_anchor, nt_header, nt_footer>>

\* get_pagelist returns the list
GotPagelists ==
    /\ nt_pc = "get_pagelists"
    /\ nt_index > Len(nt_footer.args.clusterGroups.items)
    /\ nt_pc' = "check_pagelists"
    /\ nt_index' = 1
    /\ UNCHANGED <<nt_file, nt_anchor, nt_fetches, nt_header, nt_footer,
                   nt_pagelists, nt_error>>

\* a round of: for pagelistEnvelope in pagelistEnvelopes that compares
\* nothing
CheckPagelist_unchecked ==
    /\ nt_pc = "check_pagelists"
    /\ nt_index <= Len(nt_pagelists)
    /\ nt_index' = nt_index + 1
    /\ UNCHANGED <<nt_pc, nt_error>>
    /\ UNCHANGED <<nt_file, nt_anchor, nt_fetches, nt_header, nt_footer,
                   nt_pagelists>>

\* one round of: for pagelistEnvelope in pagelistEnvelopes:
\*     if pagelistEnvelope.headerChecksum != headerEnvelope.checksum: raise
CheckPagelist ==
    /\ nt_pc = "check_pagelists"
    /\ nt_index <= Len(nt_pagelists)
    /\ IF nt_pagelists[nt_index].args.headerChecksum # nt_header.checksum
       THEN nt_pc' = "raised" /\ nt_error' = "ValueError" /\ UNCHANGED nt_index
       ELSE nt_index' = nt_index + 1 /\ UNCHANGED <<nt_pc, nt_error>>
    /\ UNCHANGED <<nt_file, nt_anchor, nt_fetches, nt_header, nt_footer,
                   nt_pagelists>>

\* return cls(headerEnvelope, footerEnvelope, pagelistEnvelopes)
Return ==
    /\ nt_pc = "check_pagelists"
    /\ nt_index > Len(nt_pagelists)
    /\ nt_pc' = "returned"
    /\ UNCHANGED <<nt_file, nt_anchor, nt_fetches, nt_header, nt_footer,
                   nt_pagelists, nt_index, nt_error>>

----------------------------------------------------------------------------
(* TKey.read_object *)

\* "TDirectory", "const TDirectoryFile", "TNope"
ClassNames ==
    {<<84, 68, 105, 114, 101, 99, 116, 111, 114, 121>>,
     <<99, 111, 110, 115, 116, 32,
       84, 68, 105, 114, 101, 99, 116, 111, 114, 121, 70, 105, 108, 101>>,
     <<84, 78, 111, 112, 101>>}

\* the objtype argument and the class name of the key
KeyCalls ==
    [objtype : {"TDirectory", "TUUID"},
     fClassName : {<<84, 68, 105, 114, 101, 99, 116, 111, 114, 121>>}]
      \cup [objtype : {"None"}, fClassName : ClassNames]

\* how the record is stored: as it is, or as a compressed block that is well
\* formed, declares an uncompressed size one too large, or carries the tag of
\* a codec that is not plugged in
Storages == {"literal", "compressed", "size", "tag"}

\* the bytes of the object, the bytes of the record body on storage
KeyPlain(fVersion, t) == WriteTDirectory(fVersion) \o Zeros(t)
KeyBody(fVersion, t, storage) ==
    CASE storage = "literal" -> KeyPlain(fVersion, t)
      [] storage = "compressed" ->
            WriteRCompressed(<<90, 76>>, RunLengthEncode(KeyPlain(fVersion, t)),
                             Len(KeyPlain(fVersion, t)))
      [] storage = "size" ->
            WriteRCompressed(<<90, 76>>, RunLengthEncode(KeyPlain(fVersion, t)),
                             Len(KeyPlain(fVersion, t)) + 1)
      [] storage = "tag" ->
            WriteRCompressed(<<88, 90>>, RunLengthEncode(KeyPlain(fVersion, t)),
                             Len(KeyPlain(fVersion, t)))

\* a file that holds at offset seek a key of keylen bytes and the body of its
\* record, and the key: fObjlen is off by do, fNbytes by dn
KeyInput(call, fVersion, t, storage, seek, keylen, do, dn) ==
    [file |-> Zeros(seek) \o Junk(keylen) \o KeyBody(fVersion, t, storage)
                  \o Zeros(MaxAfter),
     objtype |-> call.objtype,
     key |-> [cls |-> "TKey",
              header |-> [fNbytes |-> keylen + Len(KeyBody(fVersion, t, storage)) + dn,
                          fVersion |-> 4,
                          fObjlen |-> Len(KeyPlain(fVersion, t)) + do,
                          fDatime |-> 5,
                          fKeylen |-> keylen,
                          fCycle |-> 1],
              fSeekKey |-> seek,
              fSeekPdir |-> 0,
              fClassName |-> call.fClassName,
              fName |-> <<>>,
              fTitle |-> <<>>]]

KeyInputs ==
    { KeyInput(call, fVersion, t, storage, seek, keylen, do, dn) :
        call \in KeyCalls, fVersion \in {1, 5, 1005}, t \in 0..MaxTail,
        storage \in Storages, seek \in {0, 3}, keylen \in {26, 30},
        do \in Deltas, dn \in Deltas }

KeyInit ==
    \E in \in KeyInputs :
        /\ ky_pc = "fetch"
        /\ ky_file = in.file
        /\ ky_key = in.key
        /\ ky_objtype = in.objtype
        /\ ky_fetches = <<>>
        /\ ky_buffer = NoBuf
        /\ ky_compressed = None
        /\ ky_obj = None
        /\ ky_reads = 0
        /\ ky_error = ""

KeyIdle ==
    /\ ky_pc = "idle"
    /\ ky_file = <<>>
    /\ ky_key = None
    /\ ky_objtype = "None"
    /\ ky_fetches = <<>>
    /\ ky_buffer = NoBuf
    /\ ky_compressed = None
    /\ ky_obj = None
    /\ ky_reads = 0
    /\ ky_error = ""

\* a fetch of the whole record, key included
KeyFetch_record ==
    /\ ky_pc = "fetch"
    /\ ky_buffer' = Fetch(ky_file, ky_key.fSeekKey, ky_key.header.fNbytes)
    /\ ky_fetches' = Append(ky_fetches,
                            [seek |-> ky_key.fSeekKey,
                             size |-> ky_key.header.fNbytes])
    /\ ky_pc' = "fetched"
    /\ UNCHANGED <<ky_file, ky_key, ky_objtype, ky_compressed, ky_obj, ky_reads,
                   ky_error>>

\* buffer = fetch_data(fSeekKey + fKeylen, fNbytes - fKeylen)
KeyFetch ==
    /\ ky_pc = "fetch"
    /\ ky_buffer' = Fetch(ky_file, ky_key.fSeekKey + ky_key.header.fKeylen,
                          ky_key.header.fNbytes - ky_key.header.fKeylen)
    /\ ky_fetches' = Append(ky_fetches,
                            [seek |-> ky_key.fSeekKey + ky_key.header.fKeylen,
                             size |-> ky_key.header.fNbytes - ky_key.header.fKeylen])
    /\ ky_pc' = "fetched"
    /\ UNCHANGED <<ky_file, ky_key, ky_objtype, ky_compressed, ky_obj, ky_reads,
                   ky_error>>

\* if len(buffer) != fObjlen: the compressed block is read, its declared
\* uncompressed size and the rest of the buffer are checked, and buffer
\* becomes the decompressed bytes, at relpos fKeylen with no abspos
KeyDecompress ==
    /\ ky_pc = "fetched"
    /\ ReadBuffer_len(ky_buffer) # ky_key.header.fObjlen
    /\ \E c \in {RCompressed_read(ky_buffer)} :
        IF c.err # ""
        THEN /\ ky_pc' = "raised"
             /\ ky_error' = c.err
             /\ UNCHANGED <<ky_buffer, ky_compressed>>
        ELSE IF c.val.header.fUncompressedSize # ky_key.header.fObjlen
                  \/ ReadBuffer_bool(c.buf)
        THEN /\ ky_pc' = "raised"
             /\ ky_error' = "ValueError"
             /\ ky_compressed' = c.val
             /\ ky_buffer' = c.buf
        ELSE \E d \in {RCompressed_decompress(c.val)} :
             /\ ky_compressed' = c.val
             /\ IF d.err # ""
                THEN /\ ky_pc' = "raised"
                     /\ ky_error' = d.err
                     /\ ky_buffer' = c.buf
                ELSE /\ ky_pc' = "decompressed"
                     /\ ky_buffer' = ReadBuffer(d.val, -1, ky_key.header.fKeylen)
                     /\ UNCHANGED ky_error
    /\ UNCHANGED <<ky_file, ky_key, ky_objtype, ky_fetches, ky_obj, ky_reads>>

\* the class read_object reads: objtype, or the DICTIONARY entry of the
\* normalized class name ("" if there is none)
KeyObjectType ==
    IF ky_objtype # "None" THEN ky_objtype
    ELSE DICTIONARY(normalize(ky_key.fClassName))

\* obj, buffer = objtype.read(buffer), or DICTIONARY[typename].read(buffer)
KeyReadObject ==
    /\ \/ ky_pc = "decompressed"
       \/ ky_pc = "fetched" /\ ReadBuffer_len(ky_buffer) = ky_key.header.fObjlen
    /\ IF KeyObjectType = ""
       THEN /\ ky_pc' = "raised"
            /\ ky_error' = "KeyError"
            /\ UNCHANGED <<ky_buffer, ky_obj, ky_reads>>
       ELSE \E r \in {Object_read(KeyObjectType, ky_buffer)} :
            /\ ky_reads' = ky_reads + 1
            /\ IF r.err # ""
               THEN /\ ky_pc' = "raised"
                    /\ ky_error' = r.err
                    /\ UNCHANGED <<ky_buffer, ky_obj>>
               ELSE /\ ky_pc' = "check"
                    /\ ky_obj' = r.val
                    /\ ky_buffer' = r.buf
                    /\ UNCHANGED ky_error
    /\ UNCHANGED <<ky_file, ky_key, ky_objtype, ky_fetches, ky_compressed>>

\* return obj, whatever is left in the buffer
KeyReturn_unchecked ==
    /\ ky_pc = "check"
    /\ ky_pc' = "returned"
    /\ UNCHANGED ky_error
    /\ UNCHANGED <<ky_file, ky_key, ky_objtype, ky_fetches, ky_buffer,
                   ky_compressed, ky_obj, ky_reads>>

\* if buffer: raise ValueError; return obj
KeyReturn ==
    /\ ky_pc = "check"
    /\ IF ReadBuffer_bool(ky_buffer)
       THEN ky_pc' = "raised" /\ ky_error' = "ValueError"
       ELSE ky_pc' = "returned" /\ UNCHANGED ky_error
    /\ UNCHANGED <<ky_file, ky_key, ky_objtype, ky_fetches, ky_buffer,
                   ky_compressed, ky_obj, ky_reads>>

----------------------------------------------------------------------------
(* TKeyList as a mapping *)

\* keys of the list
MaxKeys == 3

\* names of keys (bytes): "A", "B", and the UTF-8 bytes of e-acute
KeyNames == {<<65>>, <<66>>, <<195, 169>>}
\* names asked for (str): "A", "B", "C", and e-acute
AskedNames == {<<65>>, <<66>>, <<67>>, <<233>>}

\* the keys of a list: key i is the record at fSeekKey 100 * i
KeyLists ==
    UNION { { [i \in 1..n |->
                  [cls |-> "TKey", fName |-> names[i],
                   header |-> [fCycle |-> cycles[i]], fSeekKey |-> 100 * i]] :
              names \in [1..n -> KeyNames], cycles \in [1..n -> {1, 2}] } :
            n \in 0..MaxKeys }

NoLookup == [err |-> "not called", val |-> <<>>, buf |-> NoBuf]

KeyListInit ==
    \E fKeys \in KeyLists, key \in AskedNames :
        /\ kl_pc = "ready"
        /\ kl_fKeys = fKeys
        /\ kl_key = key
        /\ kl_result = NoLookup

KeyListIdle ==
    /\ kl_pc = "idle"
    /\ kl_fKeys = <<>>
    /\ kl_key = <<>>
    /\ kl_result = NoLookup

\* keylist[key]
GetItem ==
    /\ kl_pc = "ready"
    /\ kl_result' = TKeyList_getitem([fKeys |-> kl_fKeys], kl_key)
    /\ kl_pc' = "done"
    /\ UNCHANGED <<kl_fKeys, kl_key>>

\* list(keylist)
Iterate ==
    /\ kl_pc = "ready"
    /\ kl_result' = TKeyList_iter([fKeys |-> kl_fKeys])
    /\ kl_pc' = "listed"
    /\ UNCHANGED <<kl_fKeys, kl_key>>

----------------------------------------------------------------------------
(* Objects read from a buffer *)

\* keys written into a key list
MaxListed == 2

\* a key of a list: its version, and how far its fKeylen is off
ListedKeys == [fVersion : {4, 1004, 1003}, dk : {-4, 0, 1}]
ListedLists == UNION { [1..n -> ListedKeys] : n \in 0..MaxListed }

\* the body of a key list record: the count (off by dn), the keys, and
\* trailing bytes
KeyListInputs ==
    { [reader |-> [op |-> "TKeyList.read", cls |-> "TKeyList", itemtype |-> "",
                   written |-> [keys |-> keys, dn |-> dn, trailing |-> t]],
       body |-> pack(">i", Len(keys) + dn)
                    \o Concat([i \in 1..Len(keys) |->
                                  WriteTKey(keys[i].fVersion, keys[i].dk)])
                    \o Zeros(t)] :
        keys \in ListedLists, dn \in {0, 1}, t \in {0, 8} }

\* items written after a pad byte
MaxArray == 2

\* an array member after its size member n: the pad byte, if the reader has
\* one, and some items
ArrayInputs ==
    { [reader |-> [op |-> "_ArrayReader", cls |-> "", itemtype |-> "",
                   self |-> [name |-> "fArray", dtype |-> dtype,
                             sizevar |-> "fN", haspad |-> haspad],
                   members |-> [fN |-> n],
                   written |-> [pad |-> pad, items |-> items]],
       body |-> (IF haspad THEN <<pad>> ELSE <<>>)
                    \o Concat([i \in 1..items |-> pack(dtype, i + 6)])] :
        dtype \in {">B", ">i"}, haspad \in BOOLEAN, n \in -1..MaxArray,
        pad \in {0, 1, 2}, items \in 0..MaxArray }

\* a TDirectory record with its last cut bytes missing, and bytes after it
DirectoryInputs ==
    { [reader |-> [op |-> "TDirectory.read", cls |-> "TDirectory",
                   itemtype |-> "",
                   written |-> [fVersion |-> fVersion, cut |-> cut,
                                trailing |-> t]],
       body |-> Prefix(WriteTDirectory(fVersion),
                       Len(WriteTDirectory(fVersion)) - cut) \o Junk(t)] :
        fVersion \in {1, 5, 999, 1000, 1001, 1005},
        cut \in 0..MaxTail, t \in {0, 2} }

\* locators: standard ones, a Large one, non-standard ones of other types,
\* with their last cut bytes missing and bytes after them
LocatorInputs ==
    { [reader |-> [op |-> "RLocator.read", cls |-> "RLocator", itemtype |-> "",
                   written |-> [cut |-> cut, trailing |-> t]],
       body |-> Prefix(loc, Len(loc) - cut) \o Junk(t)] :
        loc \in {WriteStandardLocator(0, 620), WriteStandardLocator(176, 7),
                 WriteLargeLocator(176, 620), WriteNonStandardLocator(0),
                 WriteNonStandardLocator(2), WriteNonStandardLocator(127)},
        cut \in 0..MaxTail, t \in {0, 2} }

\* the TObject base of a TNamed: its members alone, its members after a
\* header, and its members after a header whose byte count is off by 3
WriteTObjectBase(base) ==
    CASE base = "bare" -> WriteTObjectMembers(0)
      [] base = "headed" -> WriteVersioned(12, 1) \o WriteTObjectMembers(0)
      [] base = "miscounted" -> WriteVersioned(15, 1) \o WriteTObjectMembers(0)

\* the bytes of the members of an object of a streamed class
WriteMembers(cls, base) ==
    CASE cls = "TObject" -> WriteTObjectMembers(0)
      [] cls = "TNamed" ->
            WriteTObjectBase(base) \o WriteTString(<<110>>) \o WriteTString(<<>>)
      [] cls = "ROOT3a3aTIOFeatures" -> <<1>> \o pack(">i", 5)
      [] OTHER -> <<>>

\* the header of an object of cls that is followed by n bytes of members and
\* counts delta bytes more: it names the class itself, the class TObject (or
\* TNamed if cls is TObject), the empty name, or carries a version
WriteObjectHeader(cls, named, n) ==
    CASE named = "own" -> WriteNewClass(5 + Len(class_name(cls)) + n, class_name(cls))
      [] named = "other" ->
            IF cls = "TObject"
            THEN WriteNewClass(5 + Len(TNamedName) + n, TNamedName)
            ELSE WriteNewClass(5 + Len(TObjectName) + n, TObjectName)
      [] named = "empty" -> WriteNewClass(5 + n, <<>>)
      [] named = "version" -> WriteVersioned(2 + n, 1)

\* streamed objects: delta bytes follow the members and are counted in the
\* header
StreamedInputs ==
    { [reader |-> [op |-> "StreamedObject.read", cls |-> cls, itemtype |-> "",
                   rev |-> rev,
                   written |-> [named |-> named, base |-> base,
                                delta |-> delta]],
       body |-> WriteObjectHeader(cls, named,
                                  Len(WriteMembers(cls, base)) + delta)
                    \o WriteMembers(cls, base) \o Junk(delta)] :
        rev \in Revisions, cls \in StreamedClasses,
        named \in {"own", "other", "empty", "version"},
        base \in {"bare", "headed", "miscounted"}, delta \in 0..MaxTail }

\* numbers of bits at which the number of bytes changes
Double32Bits == {1, 8, 9, 16, 17, 24, 25, 32, 33, 40, 48, 49, 56, 57, 64}

\* a Double32 member: readers with parameters on 9 bytes whose first 8 are a
\* small number, on 5 bytes and on 3 bytes; readers that lack a parameter on
\* the float 2.5 and a byte, and on 3 bytes
Double32Inputs ==
    { [reader |-> [op |-> "Double32Reader", cls |-> "", itemtype |-> "",
                   self |-> [fname |-> "fX", factor |-> p.factor,
                             xmin |-> p.xmin, nbits |-> <<n>>],
                   members |-> [fN |-> 0]],
       body |-> data] :
        p \in {[factor |-> <<1>>, xmin |-> <<0>>],
               [factor |-> <<3>>, xmin |-> <<-5>>]},
        n \in Double32Bits,
        data \in {<<0, 0, 0, 0, 0, 1, 2, 3, 9>>, <<0, 32, 1, 0, 5>>,
                  <<1, 2, 3>>} }
    \cup
    { [reader |-> [op |-> "Double32Reader", cls |-> "", itemtype |-> "",
                   self |-> self, members |-> [fN |-> 0]],
       body |-> data] :
        self \in {[fname |-> "fX", factor |-> <<>>, xmin |-> <<>>,
                   nbits |-> <<>>],
                  [fname |-> "fX", factor |-> <<>>, xmin |-> <<0>>,
                   nbits |-> <<32>>],
                  [fname |-> "fX", factor |-> <<1>>, xmin |-> <<0>>,
                   nbits |-> <<>>]},
        data \in {<<64, 32, 0, 0, 5>>, <<1, 2, 3>>} }

\* the header of an object of a form, which counts the n bytes after it
WriteFormHeader(form, n) ==
    IF form = "version" THEN WriteVersioned(2 + n, 3)
    ELSE IF form = "new class" THEN WriteNewClass(4 + 2 + n, <<65>>)
    ELSE WriteClassRef(4 + n, 4)

\* objects of no known class: a header of one of the three forms, n bytes,
\* and bytes after the object; the name "A" is known under the key 4, or no
\* name is
UninterpretedInputs ==
    { [reader |-> [op |-> "Uninterpreted.read", cls |-> "Uninterpreted",
                   itemtype |-> "",
                   refs |-> refs,
                   written |-> [form |-> form, n |-> n, trailing |-> t]],
       body |-> WriteFormHeader(form, n) \o Junk(n) \o Zeros(t)] :
        form \in {"version", "new class", "class reference"},
        n \in {0, 2, 3}, t \in {0, 2, 3},
        refs \in {{}, {[key |-> 4, name |-> <<65>>]}} }

ObjectInputs ==
    KeyListInputs \cup ArrayInputs \cup DirectoryInputs \cup LocatorInputs
        \cup UninterpretedInputs
        \cup Double32Inputs
        \cup StreamedInputs

ObjectInit ==
    \E in \in ObjectInputs, k \in 0..MaxSkip, abspos \in {-1, 254} :
        /\ rd_pc = "start"
        /\ rd_reader = in.reader
        /\ rd_skip = k
        /\ rd_buffer = ReadBuffer(Junk(k) \o in.body, abspos, 0)
        /\ rd_result = NoResult

ReadArray ==
    /\ rd_pc = "ready"
    /\ rd_reader.op = "_ArrayReader"
    /\ rd_result' = ArrayReader_call(rd_reader.self, rd_reader.members, rd_buffer)
    /\ rd_pc' = "done"
    /\ UNCHANGED <<rd_buffer, rd_reader, rd_skip>>

ReadDirectory ==
    /\ rd_pc = "ready"
    /\ rd_reader.op = "TDirectory.read"
    /\ rd_result' = TDirectory_read(rd_buffer)
    /\ rd_pc' = "done"
    /\ UNCHANGED <<rd_buffer, rd_reader, rd_skip>>

ReadLocator ==
    /\ rd_pc = "ready"
    /\ rd_reader.op = "RLocator.read"
    /\ rd_result' = RLocator_read(rd_buffer)
    /\ rd_pc' = "done"
    /\ UNCHANGED <<rd_buffer, rd_reader, rd_skip>>

\* cls.read(buffer) for a buffer that holds no local references yet
ReadStreamedObject ==
    /\ rd_pc = "ready"
    /\ rd_reader.op = "StreamedObject.read"
    /\ rd_result' = StreamedObject_read(rd_reader.rev, rd_reader.cls, <<{}>>,
                         [data |-> rd_buffer.data, abspos |-> rd_buffer.abspos,
                          relpos |-> rd_buffer.relpos, local_refs |-> 1])
    /\ rd_pc' = "done"
    /\ UNCHANGED <<rd_buffer, rd_reader, rd_skip>>

ReadUninterpreted ==
    /\ rd_pc = "ready"
    /\ rd_reader.op = "Uninterpreted.read"
    /\ rd_result' = Uninterpreted_read(<<rd_reader.refs>>,
                         [data |-> rd_buffer.data, abspos |-> rd_buffer.abspos,
                          relpos |-> rd_buffer.relpos, local_refs |-> 1])
    /\ rd_pc' = "done"
    /\ UNCHANGED <<rd_buffer, rd_reader, rd_skip>>

\* the two bytes of an fVersion, of a directory and of a key
VersionInit ==
    \E b1 \in 0..255, b2 \in 0..255 :
        /\ rd_pc = "ready"
        /\ rd_reader = Reader("is_large, is_short", "", "")
        /\ rd_skip = 0
        /\ rd_buffer = ReadBuffer(<<b1, b2>>, -1, 0)
        /\ rd_result = NoResult

\* header.is_large() of the TDirectory header with the fVersion read
IsLarge ==
    /\ rd_pc = "ready"
    /\ rd_reader.op = "is_large, is_short"
    /\ rd_result' = Only({ IF v.err # "" THEN v
                           ELSE Ok([is_large |->
                                       header_is_large([fVersion |-> v.val])],
                                   v.buf)
                     : v \in {unpack(rd_buffer, ">h")} })
    /\ rd_pc' = "large"
    /\ UNCHANGED <<rd_buffer, rd_reader, rd_skip>>

\* key.is_short() of the TKey whose header has the fVersion read
IsShort ==
    /\ rd_pc = "large"
    /\ rd_reader.op = "is_large, is_short"
    /\ rd_result' = Only({ IF v.err # "" THEN v
                           ELSE Ok([is_large |-> rd_result.val.is_large,
                                    is_short |->
                                       is_short([header |->
                                                    [fVersion |-> v.val]])],
                                   v.buf)
                     : v \in {unpack(rd_buffer, ">h")} })
    /\ rd_pc' = "done"
    /\ UNCHANGED <<rd_buffer, rd_reader, rd_skip>>

ReadDouble32 ==
    /\ rd_pc = "ready"
    /\ rd_reader.op = "Double32Reader"
    /\ rd_result' = Double32Reader_call(rd_reader.self, rd_reader.members,
                                        rd_buffer)
    /\ rd_pc' = "done"
    /\ UNCHANGED <<rd_buffer, rd_reader, rd_skip>>

ReadKeyList ==
    /\ rd_pc = "ready"
    /\ rd_reader.op = "TKeyList.read"
    /\ rd_result' = TKeyList_read(rd_buffer)
    /\ rd_pc' = "done"
    /\ UNCHANGED <<rd_buffer, rd_reader, rd_skip>>

----------------------------------------------------------------------------
(* ReadBuffers derived from one buffer *)

\* ReadBuffers made from the first one; an exception ends the run
MaxBuffers == 2

\* the sizes and places asked for
Sizes == {-1, 0, 1, 2, 5}

\* class names: "A", and one with a byte that is not printable
StreamNames == {<<65>>, <<7>>}

\* streams of items: a new class and a reference to a class at the key 4 or 5
NameStreams ==
    { WriteNewClass(4 + Len(name) + 1, name) \o WriteClassRef(4, key) :
        name \in StreamNames, key \in {4, 5} }

\* streams of TObject items, after a StreamHeader of the class "A" or after
\* nothing: the first item names its class, the second refers to the name at
\* the key 4 or carries a version only; a reference to an object ends the
\* stream
ObjectStreams ==
    { first \o WriteNewClass(12 + Len(WriteTObjectMembers(fBits)), TObjectName)
          \o WriteTObjectMembers(fBits) \o second \o WriteTObjectMembers(0)
          \o pack(">i", 7) \o Zeros(4) :
        first \in {<<>>, WriteNewClass(6, <<65>>)},
        fBits \in {0, kIsReferenced},
        second \in {WriteClassRef(14, 4), WriteVersioned(12, 1)} }

\* the bytes of the first buffer
BufferData == {<<1, 2, 3, 4>>} \cup NameStreams \cup ObjectStreams

NoOperation == [op |-> "", self |-> 0, k |-> 0, err |-> "", out |-> 0,
                val |-> <<>>]

\* ReadBuffer(data, abspos, 0): no local_refs given
BufInit ==
    \E data \in BufferData, abspos \in {-1, 254} :
        \E b \in {ReadBuffer_init(<<>>, data, abspos, 0, 0)} :
            /\ bf_heap = b.heap
            /\ bf_bufs = <<b.buf>>
            /\ bf_last = NoOperation

BufIdle ==
    /\ bf_heap = <<>>
    /\ bf_bufs = <<>>
    /\ bf_last = NoOperation

\* what an operation on bf_bufs[i] that returned r leaves behind
Returned(op, i, k, r) ==
    /\ bf_heap' = r.heap
    /\ bf_bufs' = IF r.err = "" THEN Append(bf_bufs, r.buf) ELSE bf_bufs
    /\ bf_last' = [op |-> op, self |-> i, k |-> k, err |-> r.err,
                   out |-> IF r.err = "" THEN Len(bf_bufs) + 1 ELSE 0,
                   val |-> r.val]

\* buffer[start:]
GetItemFrom ==
    \E i \in 1..Len(bf_bufs), start \in Sizes :
        /\ bf_last.err = ""
        /\ Len(bf_bufs) <= MaxBuffers
        /\ Returned("getitem", i, start,
                    ReadBuffer_from(bf_heap, bf_bufs[i], start))

\* buffer.unpack(fmt)
Unpack ==
    \E i \in 1..Len(bf_bufs), fmt \in {">B", ">h", ">i"} :
        /\ bf_last.err = ""
        /\ Len(bf_bufs) <= MaxBuffers
        /\ Returned("unpack", i, calcsize(fmt),
                    ReadBuffer_unpack(bf_heap, bf_bufs[i], fmt))

\* buffer.consume(size)
Consume ==
    \E i \in 1..Len(bf_bufs), size \in Sizes :
        /\ bf_last.err = ""
        /\ Len(bf_bufs) <= MaxBuffers
        /\ Returned("consume", i, size,
                    ReadBuffer_consume(bf_heap, bf_bufs[i], size))

\* StreamHeader.read(buffer)
ReadStreamHeader ==
    \E i \in 1..Len(bf_bufs) :
        /\ bf_last.err = ""
        /\ Len(bf_bufs) <= MaxBuffers
        /\ Returned("StreamHeader.read", i, 0,
                    StreamHeader_read(bf_heap, bf_bufs[i]))

\* read_streamed_item(buffer)
ReadStreamedItem ==
    \E i \in 1..Len(bf_bufs) :
        /\ bf_last.err = ""
        /\ Len(bf_bufs) <= MaxBuffers
        /\ Returned("read_streamed_item", i, 0,
                    read_streamed_item(bf_heap, bf_bufs[i]))

\* buffer.consume_view(size)
ConsumeView ==
    \E i \in 1..Len(bf_bufs), size \in Sizes :
        /\ bf_last.err = ""
        /\ Len(bf_bufs) <= MaxBuffers
        /\ Returned("consume_view", i, size,
                    ReadBuffer_consume_view(bf_heap, bf_bufs[i], size))

----------------------------------------------------------------------------
(* RNTuple.get_extended_page_descriptions *)

\* columns of a cluster, clusters of a page list envelope
MaxColumns == 3
MaxClusters == 2

ColumnDescription(fColumnType, fBitsOnStorage) ==
    [cls |-> "ColumnDescription", fColumnType |-> fColumnType,
     fBitsOnStorage |-> fBitsOnStorage]

\* the column descriptions of the header and of the schema extension
HeaderColumns ==
    {<<>>, <<ColumnDescription("kBit", 1)>>,
     <<ColumnDescription("kBit", 1), ColumnDescription("kInt32", 32)>>}
ExtensionColumns == {<<>>, <<ColumnDescription("kReal32Trunc", 12)>>}

PageDescription(fNElements, offset) ==
    [cls |-> "RPageDescription", fNElements |-> fNElements,
     locator |-> StandardLocator(8, offset)]

\* the pages of a column: none, or two, the second of a negative fNElements
ColumnPages ==
    {[items |-> <<>>],
     [items |-> <<PageDescription(3, 100), PageDescription(-9, 108)>>]}

\* the columns of a cluster
ClusterColumns ==
    { [items |-> columns] :
        columns \in UNION { [1..n -> ColumnPages] : n \in 0..MaxColumns } }

RECURSIVE SumElements(_, _)
\* the elements of the first n pages of a column
SumElements(column, n) ==
    IF n = 0 THEN 0
    ELSE SumElements(column, n - 1) + abs(column.items[n].fNElements)

RECURSIVE ElementsBefore(_, _, _)
\* the elements of the column k in the clusters before the cluster c
ElementsBefore(clusters, c, k) ==
    IF c = 1 THEN 0
    ELSE ElementsBefore(clusters, c - 1, k)
            + (IF k <= Len(clusters[c - 1].items)
               THEN SumElements(clusters[c - 1].items[k],
                                Len(clusters[c - 1].items[k].items))
               ELSE 0)

\* the clusters with the element offset of every column written
Placed(clusters) ==
    [c \in 1..Len(clusters) |->
        [items |-> [k \in 1..Len(clusters[c].items) |->
            [items |-> clusters[c].items[k].items,
             elementoffset |-> ElementsBefore(clusters, c, k)]]]]

PageListEnvelopes ==
    { [cls |-> "PageListEnvelope",
       pageLocations |-> [items |-> Placed(clusters)]] :
        clusters \in {<<>>}
            \cup { <<[items |-> <<ColumnPages2, ColumnPages2>>]>> \o rest :
                     ColumnPages2 \in ColumnPages,
                     rest \in UNION { [1..n -> ClusterColumns] :
                                        n \in 0..(MaxClusters - 1) } } }

RNTuples ==
    { [headerEnvelope |-> [columnDescriptions |-> [items |-> header]],
       footerEnvelope |->
           [schemaExtension |-> [columnDescriptions |-> [items |-> extension]]],
       pagelistEnvelopes |-> envelopes] :
        header \in HeaderColumns, extension \in ExtensionColumns,
        envelopes \in { <<e>> : e \in PageListEnvelopes }
            \cup { <<[cls |-> "PageListEnvelope",
                      pageLocations |-> [items |-> <<>>]], e>> :
                     e \in PageListEnvelopes } }

PageInit ==
    /\ xp_pc = "ready"
    /\ xp_tuple \in RNTuples
    /\ xp_pages = <<>>

PageIdle ==
    /\ xp_pc = "idle"
    /\ xp_tuple = None
    /\ xp_pages = <<>>

\* entries asked for
Entries == {0, 2, 3, 11, 12, 14, 23, 24}

\* pageLocations.find_page(column_index, entry) on a page list envelope
FindPage ==
    \E e \in 1..Len(xp_tuple.pagelistEnvelopes),
       column_index \in 0..(MaxColumns - 1), entry \in Entries :
        /\ xp_pc = "ready"
        /\ xp_pages' = [envelope |-> e, column_index |-> column_index,
                        entry |-> entry,
                        found |-> find_page(
                                      xp_tuple.pagelistEnvelopes[e].pageLocations,
                                      column_index, entry)]
        /\ xp_pc' = "found"
        /\ UNCHANGED xp_tuple

\* rntuple.get_extended_page_descriptions()
GetExtendedPageDescriptions ==
    /\ xp_pc = "ready"
    /\ xp_pages' = get_extended_page_descriptions(xp_tuple)
    /\ xp_pc' = "done"
    /\ UNCHANGED xp_tuple

----------------------------------------------------------------------------
(* Specifications *)

vars ==
    <<readVars, linkVars, tupleVars, keyVars, keyListVars, bufVars, pageVars>>

\* a step of one part leaves the other parts alone
ReadStep ==
    UNCHANGED <<linkVars, tupleVars, keyVars, keyListVars, bufVars, pageVars>>
LinkStep ==
    UNCHANGED <<readVars, tupleVars, keyVars, keyListVars, bufVars, pageVars>>
TupleStep ==
    UNCHANGED <<readVars, linkVars, keyVars, keyListVars, bufVars, pageVars>>
KeyStep ==
    UNCHANGED <<readVars, linkVars, tupleVars, keyListVars, bufVars, pageVars>>
KeyListStep ==
    UNCHANGED <<readVars, linkVars, tupleVars, keyVars, bufVars, pageVars>>
BufStep ==
    UNCHANGED <<readVars, linkVars, tupleVars, keyVars, keyListVars, pageVars>>
PageStep ==
    UNCHANGED <<readVars, linkVars, tupleVars, keyVars, keyListVars, bufVars>>

\* a reader applied to a buffer
Init == ReadInit /\ LinkIdle /\ TupleIdle /\ KeyIdle /\ KeyListIdle /\ BufIdle
    /\ PageIdle
Next ==
    \/ Skip /\ ReadStep
    \/ ReadRecordFrame /\ ReadStep
    \/ ReadListFrame /\ ReadStep
    \/ ReadFrameAs /\ ReadStep
    \/ ReadEnvelope /\ ReadStep
    \/ ReadEnvelopePy /\ ReadStep
Spec == Init /\ [][Next]_vars

\* an object read from a buffer
InitObjects == ObjectInit /\ LinkIdle /\ TupleIdle /\ KeyIdle /\ KeyListIdle /\ BufIdle
    /\ PageIdle
NextObjects ==
    \/ Skip /\ ReadStep
    \/ ReadKeyList /\ ReadStep
    \/ ReadArray /\ ReadStep
    \/ ReadDirectory /\ ReadStep
    \/ ReadLocator /\ ReadStep
    \/ ReadDouble32 /\ ReadStep
    \/ ReadStreamedObject /\ ReadStep
    \/ ReadUninterpreted /\ ReadStep
SpecObjects == InitObjects /\ [][NextObjects]_vars

\* the fVersion of a directory and of a key
InitVersions ==
    VersionInit /\ LinkIdle /\ TupleIdle /\ KeyIdle /\ KeyListIdle /\ BufIdle
        /\ PageIdle
NextVersions ==
    \/ IsLarge /\ ReadStep
    \/ IsShort /\ ReadStep
SpecVersions == InitVersions /\ [][NextVersions]_vars

\* ReadBuffers derived from one buffer
InitBuffers ==
    BufInit /\ ReadIdle /\ LinkIdle /\ TupleIdle /\ KeyIdle /\ KeyListIdle
    /\ PageIdle
NextBuffers ==
    \/ GetItemFrom /\ BufStep
    \/ Unpack /\ BufStep
    \/ Consume /\ BufStep
    \/ ConsumeView /\ BufStep
    \/ ReadStreamHeader /\ BufStep
    \/ ReadStreamedItem /\ BufStep
SpecBuffers == InitBuffers /\ [][NextBuffers]_vars

\* RNTuple.get_extended_page_descriptions
InitPages ==
    PageInit /\ ReadIdle /\ LinkIdle /\ TupleIdle /\ KeyIdle /\ KeyListIdle
    /\ BufIdle
NextPages ==
    \/ GetExtendedPageDescriptions /\ PageStep
    \/ FindPage /\ PageStep
SpecPages == InitPages /\ [][NextPages]_vars

\* an envelope link followed into a file
InitLink == LinkInit /\ ReadIdle /\ TupleIdle /\ KeyIdle /\ KeyListIdle /\ BufIdle
    /\ PageIdle
NextLink ==
    \/ FollowLink /\ LinkStep
    \/ FollowLinkPy /\ LinkStep
SpecLink == InitLink /\ [][NextLink]_vars

\* RNTuple.from_anchor
InitTuple == TupleInit /\ ReadIdle /\ LinkIdle /\ KeyIdle /\ KeyListIdle /\ BufIdle
    /\ PageIdle
NextTuple ==
    \/ GetHeader /\ TupleStep
    \/ GetFooter /\ TupleStep
    \/ CheckFooter /\ TupleStep
    \/ GetPagelist /\ TupleStep
    \/ GotPagelists /\ TupleStep
    \/ CheckPagelist /\ TupleStep
    \/ Return /\ TupleStep
SpecTuple == InitTuple /\ [][NextTuple]_vars

\* TKey.read_object
InitKey == KeyInit /\ ReadIdle /\ LinkIdle /\ TupleIdle /\ KeyListIdle /\ BufIdle
    /\ PageIdle
NextKey ==
    \/ KeyFetch /\ KeyStep
    \/ KeyDecompress /\ KeyStep
    \/ KeyReadObject /\ KeyStep
    \/ KeyReturn /\ KeyStep
SpecKey == InitKey /\ [][NextKey]_vars

\* TKeyList as a mapping
InitKeyList == KeyListInit /\ ReadIdle /\ LinkIdle /\ TupleIdle /\ KeyIdle /\ BufIdle
    /\ PageIdle
NextKeyList ==
    \/ GetItem /\ KeyListStep
    \/ Iterate /\ KeyListStep
SpecKeyList == InitKeyList /\ [][NextKeyList]_vars

----------------------------------------------------------------------------
(* Properties of the readers *)

\* C1: when REnvelope.read succeeds, the declared length L minus 8 equals the
\* bytes that remain after the 8-byte length/type word, the position before
\* the checksum is p0 + L - 8 and the position after the read is p0 + L; when
\* the length does not match, or the payload decoder consumes past
\* p0 + L - 8, the read fails.
C1_EnvelopeExtent ==
    (rd_pc = "done" /\ rd_reader.op \in EnvelopeOps) =>
        LET p0 == rd_buffer.relpos
            w == unpack(rd_buffer, "<Q")
            L == IF w.err = "" THEN w.val \div 65536 ELSE 0
            before == IF rd_reader.op = "REnvelope.read"
                      THEN REnvelope_read_payload(rd_reader.cls, rd_buffer)
                      ELSE REnvelope_py_read_payload(rd_reader.cls, rd_buffer)
            m == IF w.err = "" THEN Envelope_read_members(rd_reader.cls, w.buf)
                 ELSE w
        IN  /\ rd_result.err = "" =>
                /\ w.err = ""
                /\ L - 8 = Len(rd_buffer.data) - 8
                /\ before.err = ""
                /\ before.buf.relpos = p0 + L - 8
                /\ rd_result.buf.relpos = p0 + L
            /\ (w.err = "" /\ L - 8 # Len(rd_buffer.data) - 8) => rd_result.err # ""
            /\ (m.err = "" /\ m.buf.relpos > p0 + L - 8) => rd_result.err # ""

\* a footer envelope with unknown trailing bytes, read at a position p0 > 0
C1_Witness ==
    /\ rd_pc = "done"
    /\ rd_reader.op = "REnvelope.read"
    /\ rd_reader.cls = "FooterEnvelope"
    /\ rd_buffer.relpos > 0
    /\ rd_result.err = ""
    /\ rd_result.val._unknown # <<>>

\* C2: when RecordFrame.read or ListFrame.read_as succeeds on a frame whose
\* size word is s, the position after the read is p0 + |s|; when the decoded
\* payload is larger than |s|, or |s| exceeds the bytes available, the read
\* fails.
C2_FrameExtent ==
    (rd_pc = "done" /\ rd_reader.op \in FrameOps) =>
        LET p0 == rd_buffer.relpos
            s == unpack(rd_buffer, "<q")
            size == IF s.err # "" THEN 0
                    ELSE IF s.val < 0 THEN -s.val ELSE s.val
            payload == IF rd_reader.op = "RecordFrame.read"
                       THEN RecordFrame_read_payload(rd_reader.cls, rd_buffer)
                       ELSE ListFrame_read_as_payload(rd_reader.cls,
                                                      rd_reader.itemtype, rd_buffer)
        IN  /\ rd_result.err = "" =>
                /\ s.err = ""
                /\ rd_result.buf.relpos = p0 + size
            /\ (payload.err = "" /\ payload.buf.relpos - p0 > size)
                    => rd_result.err # ""
            /\ (s.err = "" /\ size > Len(rd_buffer.data)) => rd_result.err # ""

\* a list frame of two items with unknown trailing bytes, read at p0 > 0
C2_Witness ==
    /\ rd_pc = "done"
    /\ rd_reader.op = "ListFrame.read_as"
    /\ rd_buffer.relpos > 0
    /\ rd_result.err = ""
    /\ Len(rd_result.val.items) = 2
    /\ rd_result.val._unknown # <<>>

HeaderFetch == [seek |-> nt_anchor.fSeekHeader, size |-> nt_anchor.fNBytesHeader]
FooterFetch == [seek |-> nt_anchor.fSeekFooter, size |-> nt_anchor.fNBytesFooter]
LinkFetches ==
    IF nt_footer = None THEN <<>>
    ELSE [i \in 1..Len(nt_footer.args.clusterGroups.items) |->
            [seek |-> nt_footer.args.clusterGroups.items[i].pagelistLink.locator.offset,
             size |-> nt_footer.args.clusterGroups.items[i].pagelistLink.locator.size]]
ExpectedFetches == <<HeaderFetch, FooterFetch>> \o LinkFetches

IsPrefix(a, b) == Len(a) <= Len(b) /\ a = SubSeq(b, 1, Len(a))

\* where from_anchor is, given the fetches issued
C5_Sequence ==
    /\ nt_pc = "get_header" => nt_fetches = <<>>
    /\ nt_pc = "get_footer" => nt_fetches = <<HeaderFetch>>
    /\ nt_pc = "check_footer" => nt_fetches = <<HeaderFetch, FooterFetch>>
    /\ nt_pc = "get_pagelists" =>
          /\ nt_fetches = SubSeq(ExpectedFetches, 1, 2 + (nt_index - 1))
          /\ Len(nt_pagelists) = nt_index - 1
    /\ nt_pc \in {"check_pagelists", "returned"} => nt_fetches = ExpectedFetches
    /\ nt_pc = "raised" =>
          /\ nt_error # ""
          /\ nt_fetches # <<>>
          /\ IsPrefix(nt_fetches, ExpectedFetches)
    /\ Len(nt_fetches) > 2 => nt_footer.args.headerChecksum = nt_header.checksum

\* a step that fails aborts; after the abort, and after the return, nothing
\* happens; a step issues at most one fetch
C5_Abort ==
    /\ (nt_pc = "get_header"
            /\ ROOT3a3aRNTuple_get_header(nt_anchor, nt_file).err # "")
          => nt_pc' = "raised"
    /\ (nt_pc = "get_footer"
            /\ ROOT3a3aRNTuple_get_footer(nt_anchor, nt_file).err # "")
          => nt_pc' = "raised"
    /\ (nt_pc = "check_footer"
            /\ nt_footer.args.headerChecksum # nt_header.checksum)
          => nt_pc' = "raised"
    /\ (nt_pc = "get_pagelists"
            /\ nt_index <= Len(nt_footer.args.clusterGroups.items)
            /\ REnvelopeLink_read_envelope(
                   nt_footer.args.clusterGroups.items[nt_index].pagelistLink,
                   nt_file, "PageListEnvelope").err # "")
          => nt_pc' = "raised"
    /\ (nt_pc = "check_pagelists"
            /\ nt_index <= Len(nt_pagelists)
            /\ nt_pagelists[nt_index].args.headerChecksum # nt_header.checksum)
          => nt_pc' = "raised"
    /\ nt_pc \in {"raised", "returned"} => UNCHANGED tupleVars
    /\ nt_pc' = "returned" => nt_pc = "check_pagelists" /\ nt_error = ""
    /\ \/ nt_fetches' = nt_fetches
       \/ /\ Len(nt_fetches') = Len(nt_fetches) + 1
          /\ IsPrefix(nt_fetches, nt_fetches')

C8_CompressedPageList ==
    \A k \in 1..Len(LinkFetches) :
        (/\ Len(nt_fetches) >= 2 + k
         /\ nt_footer.args.clusterGroups.items[k].pagelistLink.locator.size
              < nt_footer.args.clusterGroups.items[k].pagelistLink.length)
        => /\ Len(nt_pagelists) >= k
           /\ nt_pagelists[k].cls = "PageListEnvelope"
           /\ nt_pagelists[k].length
                = nt_footer.args.clusterGroups.items[k].pagelistLink.length

\* the range of the file that belongs to the record body of the key
KeyRange ==
    SubSeq(ky_file, ky_key.fSeekKey + ky_key.header.fKeylen + 1,
           IF ky_key.fSeekKey + ky_key.header.fNbytes < Len(ky_file)
           THEN ky_key.fSeekKey + ky_key.header.fNbytes ELSE Len(ky_file))

\* the number of bytes the encoding of an object takes
ObjectBytes(obj) ==
    CASE obj.cls = "TUUID" -> 18
      [] obj.cls = "TDirectory" ->
            18 + (IF obj.header.fVersion > 1000 THEN 24 ELSE 12)
               + (IF obj.fUUID # None THEN 18 ELSE 0)
               + (IF obj.header.fVersion > 1000 THEN 0 ELSE 12)

\* an object is returned only if it takes all of the object bytes, which are
\* the fetched range or what the compressed block decodes to, and the
\* compressed block takes all of the fetched range
C6_Consumed ==
    ky_pc = "returned" =>
        /\ ky_error = ""
        /\ ky_obj # None
        /\ ky_buffer.data = <<>>
        /\ IF ky_compressed = None
           THEN ObjectBytes(ky_obj) = Len(KeyRange)
           ELSE /\ 9 + Len(ky_compressed.payload) = Len(KeyRange)
                /\ ObjectBytes(ky_obj) = Len(RunLengthDecode(ky_compressed.payload))

\* bytes left after the compressed block and bytes left after the object make
\* the step raise
C6_Residual ==
    /\ (ky_pc = "check" /\ ky_buffer.data # <<>>)
          => ky_pc' = "raised" /\ ky_error' # ""
    /\ (ky_pc = "fetched"
            /\ Len(ky_buffer.data) # ky_key.header.fObjlen
            /\ RCompressed_read(ky_buffer).err = ""
            /\ RCompressed_read(ky_buffer).buf.data # <<>>)
          => ky_pc' = "raised" /\ ky_error' # ""
    /\ ky_pc' = "returned" => ky_pc = "check" /\ ky_buffer.data = <<>>

\* C6: TKey.read_object returns an object only when decoding consumed the
\* object buffer completely: on the literal and on the decompressed path any
\* byte left after the object read raises an error, and on the compressed
\* path any byte of the fetched range left after the compressed block raises
\* an error.
C6_FullyConsumed == [](C6_Consumed) /\ [][C6_Residual]_vars

\* a TDirectory returned from a compressed record
C6_Witness ==
    /\ ky_pc = "returned"
    /\ ky_compressed # None
    /\ ky_obj.cls = "TDirectory"
    /\ ky_buffer.data = <<>>

\* C7: TKey.read_object issues exactly one fetch, at offset fSeekKey +
\* fKeylen and of length fNbytes - fKeylen; it takes the decompression path
\* if and only if the fetched length differs from fObjlen, and on that path
\* the declared uncompressed size of the block header must equal fObjlen
\* (error otherwise) before the object reader runs.
C7_FetchAndPath ==
    /\ ky_pc = "fetch" => ky_fetches = <<>>
    /\ ky_pc \in {"fetched", "decompressed", "check", "returned", "raised"} =>
          /\ ky_fetches = <<[seek |-> ky_key.fSeekKey + ky_key.header.fKeylen,
                             size |-> ky_key.header.fNbytes - ky_key.header.fKeylen]>>
          /\ ky_pc = "fetched" => ky_buffer.data = KeyRange
    /\ ky_pc = "decompressed" =>
          /\ ky_reads = 0
          /\ ky_compressed # None
          /\ Len(KeyRange) # ky_key.header.fObjlen
    /\ ky_pc \in {"check", "returned"} =>
          /\ ky_reads = 1
          /\ ky_compressed # None <=> Len(KeyRange) # ky_key.header.fObjlen
    /\ ky_compressed # None =>
          /\ Len(KeyRange) # ky_key.header.fObjlen
          /\ ky_compressed = RCompressed_read(Fetch(ky_file,
                  ky_key.fSeekKey + ky_key.header.fKeylen,
                  ky_key.header.fNbytes - ky_key.header.fKeylen)).val
          /\ ky_compressed.header.fUncompressedSize # ky_key.header.fObjlen
                => /\ ky_pc = "raised"
                   /\ ky_error = "ValueError"
                   /\ ky_reads = 0
          /\ ky_pc \in {"decompressed", "check", "returned"}
                => Len(ky_buffer.data) + (IF ky_obj = None THEN 0 ELSE ObjectBytes(ky_obj))
                      = ky_key.header.fObjlen
    /\ (ky_pc = "raised" /\ Len(KeyRange) = ky_key.header.fObjlen)
          => ky_compressed = None /\ (ky_reads = 1 \/ ky_error = "KeyError")
    /\ ky_reads \in {0, 1}

\* a compressed record whose block header declares another uncompressed size
\* than fObjlen: read_object raised and the object reader did not run
C7_Witness ==
    /\ ky_pc = "raised"
    /\ ky_compressed # None
    /\ ky_compressed.header.fAlgorithm = <<90, 76>>
    /\ ky_compressed.header.fUncompressedSize # ky_key.header.fObjlen
    /\ ky_reads = 0

\* the positions of the keys that carry a name: a name is a str, the name of
\* a key is its ASCII bytes
Carriers(fKeys, name) ==
    { i \in 1..Len(fKeys) :
        /\ \A c \in 1..Len(name) : name[c] < 128
        /\ fKeys[i].fName = name }

\* C10: TKeyList lookup by name returns, among all keys whose fName equals
\* the requested name, a key with the maximum fCycle; a name carried by no
\* key raises KeyError; the returned key never has a different name, for any
\* order and multiplicity of keys in the list.
C10_Lookup ==
    kl_pc = "done" =>
        IF Carriers(kl_fKeys, kl_key) = {}
        THEN kl_result.err = "KeyError"
        ELSE /\ kl_result.err = ""
             /\ \E i \in Carriers(kl_fKeys, kl_key) : kl_result.val = kl_fKeys[i]
             /\ kl_result.val.fName = kl_key
             /\ \A j \in Carriers(kl_fKeys, kl_key) :
                   kl_result.val.header.fCycle >= kl_fKeys[j].header.fCycle

\* the lookup of a name of ASCII characters: the first key of the greatest
\* cycle among the carriers, KeyError if there is no carrier
C10_AsciiLookup ==
    (kl_pc = "done" /\ \A c \in 1..Len(kl_key) : kl_key[c] < 128) => C10_Lookup

\* C11: a TKeyList whose body is exactly the count followed by its keys
\* decodes with empty padding and no byte left, for every mix of key
\* versions, a list of one key of fVersion 1004 and one of fVersion 4
\* included.
C11_ExactListDecodes ==
    (/\ rd_pc = "done"
     /\ rd_reader.op = "TKeyList.read"
     /\ rd_reader.written.dn = 0
     /\ rd_reader.written.trailing = 0
     /\ \A i \in 1..Len(rd_reader.written.keys) :
           /\ rd_reader.written.keys[i].fVersion \in {4, 1004}
           /\ rd_reader.written.keys[i].dk \in {-4, 0})
    => /\ rd_result.err = ""
       /\ Len(rd_result.val.fKeys) = Len(rd_reader.written.keys)
       /\ rd_result.val.padding = <<>>
       /\ rd_result.buf.data = <<>>

\* an operation that yields a remainder
Remainders == {"getitem", "unpack", "consume", "consume_view"}

\* C12: whenever a slice from k, an unpack of a k-byte format, consume(k) or
\* consume_view(k) yields a remainder, k >= 0, the remainder's relpos is the
\* buffer's plus k, its length is the buffer's minus k, and its abspos is
\* the buffer's plus k when known and unknown otherwise.
C12_PositionArithmetic ==
    (bf_last.op \in Remainders /\ bf_last.err = "") =>
        LET self == bf_bufs[bf_last.self]
            rest == bf_bufs[bf_last.out]
        IN  /\ bf_last.k >= 0
            /\ rest.relpos = self.relpos + bf_last.k
            /\ Len(rest.data) = Len(self.data) - bf_last.k
            /\ rest.abspos = IF self.abspos = -1 THEN -1
                             ELSE self.abspos + bf_last.k

\* the same for the sizes that are not negative
C12_Forward ==
    (bf_last.op \in Remainders /\ bf_last.err = "" /\ bf_last.k >= 0) =>
        LET self == bf_bufs[bf_last.self]
            rest == bf_bufs[bf_last.out]
        IN  /\ rest.relpos = self.relpos + bf_last.k
            /\ Len(rest.data) = Len(self.data) - bf_last.k
            /\ rest.abspos = IF self.abspos = -1 THEN -1
                             ELSE self.abspos + bf_last.k

\* C13: every buffer derived from a ReadBuffer holds the very dict of local
\* references that the buffer holds, whether the dict was empty or not when
\* the buffer was derived, and read_streamed_item, which asserts that the
\* item slice and the remaining slice hold equal dicts, never fails that
\* assertion.
C13_SharedTable ==
    /\ \A i, j \in 1..Len(bf_bufs) :
          bf_bufs[i].local_refs = bf_bufs[j].local_refs
    /\ bf_last.err # "AssertionError"

\* the dict is shared by the buffers derived while it is not empty
C13_SharedWhenFilled ==
    (bf_last.err = "" /\ bf_last.out # 0
        /\ bf_last.op \in Remainders
        /\ bf_heap[bf_bufs[bf_last.self].local_refs] # {})
    => bf_bufs[bf_last.out].local_refs = bf_bufs[bf_last.self].local_refs

\* the bytes at a StreamHeader with its byte count marked
Fresh(data) == Len(data) >= 8 /\ HasBit(data[1], 64)
\* the words of a new class tag, and of a reference to a class
IsNewClass(data) == Fresh(data) /\ SubSeq(data, 5, 8) = <<255, 255, 255, 255>>
IsClassRef(data) == Fresh(data) /\ data[5] >= 128 /\ ~IsNewClass(data)
\* (w & ~0x80000000) - 2 for the word w of a reference to a class
KeyOf(data) == BigEndian(<<data[5] % 128, data[6], data[7], data[8]>>) - 2
\* the bytes from the ninth up to the first NUL
NameAt(data) ==
    LET nul == CHOOSE n \in 9..Len(data) :
                   data[n] = 0 /\ \A m \in 9..(n - 1) : data[m] # 0
    IN  SubSeq(data, 9, nul - 1)

\* C14: StreamHeader.read of a new class header puts the class name into the
\* dict of the buffer it returns under the key relpos + 4 of the header
\* start; of a reference word w it looks up the key (w & ~0x80000000) - 2:
\* the header carries the bytes the dict holds under that key, and a key the
\* dict does not hold raises ValueError.
C14_ClassNames ==
    bf_last.op = "StreamHeader.read" =>
        LET self == bf_bufs[bf_last.self]
            dict == bf_heap[self.local_refs]
        IN  /\ (IsNewClass(self.data) /\ bf_last.err = "") =>
                  /\ bf_last.val.fClassRef = <<self.relpos + 4>>
                  /\ bf_last.val.fClassName = <<NameAt(self.data)>>
                  /\ [key |-> self.relpos + 4, name |-> NameAt(self.data)]
                        \in bf_heap[bf_bufs[bf_last.out].local_refs]
            /\ IsClassRef(self.data) =>
                  IF \E e \in dict : e.key = KeyOf(self.data)
                  THEN /\ bf_last.err = ""
                       /\ bf_last.val.fClassRef = <<KeyOf(self.data)>>
                       /\ [key |-> KeyOf(self.data),
                           name |-> bf_last.val.fClassName[1]] \in dict
                  ELSE bf_last.err = "ValueError"

\* a reference read from the buffer that a new class header returned: it
\* carries the name "A" registered under the key 4
C14_Witness ==
    /\ Len(bf_bufs) = 3
    /\ bf_last.op = "StreamHeader.read"
    /\ bf_last.self = 2
    /\ bf_last.err = ""
    /\ IsNewClass(bf_bufs[1].data)
    /\ IsClassRef(bf_bufs[2].data)
    /\ bf_last.val.fClassName = <<<<65>>>>
    /\ bf_last.val.fClassRef = <<4>>

\* C15: an array reader with a pad byte, after the size member n: the pad
\* byte 0 gives the empty array and takes one byte; the pad byte 1 with
\* n > 0 gives n items and takes 1 + n * itemsize bytes; the pad byte 1 with
\* n = 0 and every other pad byte are errors.  An array that was read is
\* empty if and only if the pad byte is 0.
C15_PadByte ==
    (rd_pc = "done" /\ rd_reader.op = "_ArrayReader" /\ rd_reader.self.haspad)
    => LET n == rd_reader.members.fN
           pad == rd_reader.written.pad
           itemsize == calcsize(rd_reader.self.dtype)
       IN  /\ pad = 0 =>
                 /\ rd_result.err = ""
                 /\ rd_result.val.fArray = <<>>
                 /\ rd_result.buf.relpos = rd_buffer.relpos + 1
           /\ (pad = 1 /\ n > 0 /\ rd_reader.written.items >= n) =>
                 /\ rd_result.err = ""
                 /\ Len(rd_result.val.fArray) = n
                 /\ \A i \in 1..n : rd_result.val.fArray[i] = i + 6
                 /\ rd_result.buf.relpos = rd_buffer.relpos + 1 + n * itemsize
           /\ (pad = 1 /\ n = 0) => rd_result.err = "ValueError"
           /\ pad \notin {0, 1} => rd_result.err = "ValueError"
           /\ rd_result.err = "" =>
                 (rd_result.val.fArray = <<>> <=> pad = 0)

\* the pad byte 0 before two items, the size member being 2
C15_Witness ==
    /\ rd_pc = "done"
    /\ rd_reader.op = "_ArrayReader"
    /\ rd_reader.self.haspad
    /\ rd_reader.members.fN = 2
    /\ rd_reader.written = [pad |-> 0, items |-> 2]
    /\ rd_result.err = ""
    /\ rd_result.val.fArray = <<>>
    /\ Len(rd_result.buf.data) = 2 * calcsize(rd_reader.self.dtype)

\* the merged column descriptions of the RNTuple
Columns == xp_tuple.headerEnvelope.columnDescriptions.items
               \o xp_tuple.footerEnvelope.schemaExtension.columnDescriptions.items
\* the clusters of the page list envelope e
Clusters(e) == xp_tuple.pagelistEnvelopes[e].pageLocations.items

\* C16: get_extended_page_descriptions returns, for every page list
\* envelope, every cluster, every column the cluster lists and every page
\* description of the column, one interpretable page of that page
\* description, in the same nesting and order, however many columns the
\* cluster lists and however many column descriptions there are.
C16_EveryPage ==
    xp_pc = "done" =>
        /\ Len(xp_pages) = Len(xp_tuple.pagelistEnvelopes)
        /\ \A e \in 1..Len(xp_pages) :
              /\ Len(xp_pages[e]) = Len(Clusters(e))
              /\ \A c \in 1..Len(Clusters(e)) :
                    /\ Len(xp_pages[e][c]) = Len(Clusters(e)[c].items)
                    /\ \A k \in 1..Len(Clusters(e)[c].items) :
                          /\ Len(xp_pages[e][c][k])
                                = Len(Clusters(e)[c].items[k].items)
                          /\ \A q \in 1..Len(Clusters(e)[c].items[k].items) :
                                xp_pages[e][c][k][q].pageDescription
                                    = Clusters(e)[c].items[k].items[q]

\* the same for the clusters that list no more columns than there are
\* column descriptions
C16_DescribedColumns ==
    xp_pc = "done" =>
        /\ Len(xp_pages) = Len(xp_tuple.pagelistEnvelopes)
        /\ \A e \in 1..Len(xp_pages) :
              /\ Len(xp_pages[e]) = Len(Clusters(e))
              /\ \A c \in 1..Len(Clusters(e)) :
                    Len(Clusters(e)[c].items) <= Len(Columns) =>
                    /\ Len(xp_pages[e][c]) = Len(Clusters(e)[c].items)
                    /\ \A k \in 1..Len(Clusters(e)[c].items) :
                          /\ Len(xp_pages[e][c][k])
                                = Len(Clusters(e)[c].items[k].items)
                          /\ \A q \in 1..Len(Clusters(e)[c].items[k].items) :
                                xp_pages[e][c][k][q].pageDescription
                                    = Clusters(e)[c].items[k].items[q]

\* C17: every interpretable page returned carries the least number of bytes
\* that hold |fNElements| * fBitsOnStorage bits, and the column type, both
\* of the column description at the place of the page's column in its
\* cluster; fNElements and -fNElements give the same size.
C17_SizeAndType ==
    xp_pc = "done" =>
        \A e \in 1..Len(xp_pages) : \A c \in 1..Len(xp_pages[e]) :
        \A k \in 1..Len(xp_pages[e][c]) : \A q \in 1..Len(xp_pages[e][c][k]) :
            LET page == xp_pages[e][c][k][q]
                n == page.pageDescription.fNElements
                bits == (IF n < 0 THEN -n ELSE n) * Columns[k].fBitsOnStorage
            IN  /\ page.pageDescription = Clusters(e)[c].items[k].items[q]
                /\ page.columnType = Columns[k].fColumnType
                /\ page.uncompressedSize >= 0
                /\ 8 * page.uncompressedSize >= bits
                /\ 8 * (page.uncompressedSize - 1) < bits

\* a page of -9 elements of the third column, of 12 bits: 14 bytes
C17_Witness ==
    /\ xp_pc = "done"
    /\ \E e \in 1..Len(xp_pages) : \E c \in 1..Len(xp_pages[e]) :
          /\ Len(xp_pages[e][c]) = 3
          /\ Len(xp_pages[e][c][3]) = 2
          /\ xp_pages[e][c][3][2].pageDescription.fNElements = -9
          /\ xp_pages[e][c][3][2].uncompressedSize = 14
          /\ xp_pages[e][c][3][2].columnType = "kReal32Trunc"

\* the fVersion at the start of a TDirectory record, and the bytes of its
\* UUID: 18 if fVersion % 1000 > 1, none otherwise
VersionAt(data) == BigEndianSigned(SubSeq(data, 1, 2))
UUIDBytes(data) == IF VersionAt(data) % 1000 > 1 THEN 18 ELSE 0

FlagByteAt(data) == data[24]
WholeSummary(data) ==
    Len(data) >= 24 /\ BigEndianSigned(Reverse(SubSeq(data, 1, 8))) = 24

\* C19: reading a ClusterSummary whose feature flag byte, the 8 most
\* significant bits of fNEntriesAndFeatureFlag, has bit 0 set ends in an
\* error; with bit 0 clear the read succeeds, whatever the other bits are.
C19_ShardedAborts ==
    (rd_pc = "done" /\ rd_reader.op = "RecordFrame.read"
        /\ rd_reader.cls = "ClusterSummary" /\ WholeSummary(rd_buffer.data))
    => IF FlagByteAt(rd_buffer.data) % 2 = 1
       THEN rd_result.err # ""
       ELSE rd_result.err = ""

\* what the read does: it succeeds whatever the flag byte is and keeps the
\* flags in fNEntriesAndFeatureFlag
C19_FlagsKept ==
    (rd_pc = "done" /\ rd_reader.op = "RecordFrame.read"
        /\ rd_reader.cls = "ClusterSummary" /\ WholeSummary(rd_buffer.data))
    => /\ rd_result.err = ""
       /\ FlagByteAt(rd_buffer.data) # 0 =>
             /\ ClusterSummary_fFeatureFlag(rd_result.val)
                   = FlagByteAt(rd_buffer.data)
             /\ ClusterSummary_fNEntries(rd_result.val) = <<0, 0, 0, 22>>

\* the typeID in the length/type word at the start of a buffer
TypeIDAt(buffer) == unpack(buffer, "<Q").val % 65536

\* C20: REnvelope.read for an envelope class fails unless the typeID in the
\* length/type word is the id registered for that class (1 for
\* HeaderEnvelope, 2 for FooterEnvelope, 3 for PageListEnvelope); the reserved
\* id 0 and an id that is not registered fail for every class.
C20_TypeChecked ==
    (rd_pc = "done" /\ rd_reader.op \in EnvelopeOps
        /\ ReadBuffer_len(rd_buffer) >= 8)
    => (ENVELOPE_TYPE_MAP(TypeIDAt(rd_buffer)) # rd_reader.cls
            => rd_result.err # "")

\* REnvelope.read of envelope_base.py fails on the type before anything else is
\* looked at: KeyError for an id that is not registered, ValueError for the
\* id of another class and for the reserved id
C20_BaseTypeChecked ==
    (rd_pc = "done" /\ rd_reader.op = "REnvelope.read"
        /\ ReadBuffer_len(rd_buffer) >= 8
        /\ ENVELOPE_TYPE_MAP(TypeIDAt(rd_buffer)) # rd_reader.cls)
    => rd_result.err = IF ENVELOPE_TYPE_MAP(TypeIDAt(rd_buffer)) = ""
                       THEN "KeyError" ELSE "ValueError"

\* the signed word at the start of a locator, and the type of a non-standard
\* word: the 7 bits under its sign bit
LocatorWord(data) == BigEndianSigned(Reverse(SubSeq(data, 1, 4)))
LocatorType(data) == data[4] % 128

C21_NegativeRaises ==
    (rd_pc = "done" /\ rd_reader.op = "RLocator.read"
        /\ Len(rd_buffer.data) >= 4)
    => LET d == rd_buffer.data
       IN  /\ (LocatorWord(d) >= 0 /\ Len(d) >= 12) =>
                 /\ rd_result.err = ""
                 /\ rd_result.val.cls = "StandardLocator"
                 /\ rd_result.val.size = LocatorWord(d)
                 /\ rd_result.buf.relpos = rd_buffer.relpos + 12
                 /\ rd_result.buf.data = Suffix(d, 12)
           /\ LocatorWord(d) < 0 => rd_result.err = "ValueError"

\* the signed size word at the start of a frame
SizeWordAt(buffer) == unpack(buffer, "<q").val

\* C22: RFrame.read_as looks at the size word and leaves it in the buffer:
\* for a size > 0 it returns what RecordFrame.read returns for the buffer,
\* for a size < 0 what ListFrame.read_as returns, and for the size 0 it
\* raises ValueError.
C22_FrameBySign ==
    (rd_pc = "done" /\ rd_reader.op = "RFrame.read_as"
        /\ ReadBuffer_len(rd_buffer) >= 8)
    => /\ SizeWordAt(rd_buffer) > 0 =>
             rd_result = RecordFrame_read(rd_reader.itemtype, rd_buffer)
       /\ SizeWordAt(rd_buffer) < 0 =>
             rd_result = ListFrame_read_as("ListFrame", rd_reader.itemtype,
                                           rd_buffer)
       /\ SizeWordAt(rd_buffer) = 0 => rd_result.err = "ValueError"

\* what the read does: a size > 0 ends in RecursionError, a size < 0 gives the
\* list frame and the size 0 raises ValueError
C22_RecordRecurses ==
    (rd_pc = "done" /\ rd_reader.op = "RFrame.read_as"
        /\ ReadBuffer_len(rd_buffer) >= 8)
    => /\ SizeWordAt(rd_buffer) > 0 => rd_result.err = "RecursionError"
       /\ SizeWordAt(rd_buffer) < 0 =>
             rd_result = ListFrame_read_as("ListFrame", rd_reader.itemtype,
                                           rd_buffer)
       /\ SizeWordAt(rd_buffer) = 0 => rd_result.err = "ValueError"

\* the optional fields of a StreamHeader that are set
FieldsSet(header) ==
    { f \in {"fVersion", "fClassName", "fClassRef"} : header[f] # <<>> }

\* C23: a StreamHeader that StreamHeader.read returns has exactly one of
\* fVersion, fClassName and fClassRef set, whichever form the header has.
C23_OneFieldSet ==
    (bf_last.op = "StreamHeader.read" /\ bf_last.err = "")
    => Cardinality(FieldsSet(bf_last.val)) = 1

\* what the read returns: fVersion alone for a version word, fClassRef alone
\* for a reference to an object, and fClassName together with fClassRef for a
\* new class tag and for a reference to a class
C23_FieldsByForm ==
    (bf_last.op = "StreamHeader.read" /\ bf_last.err = "")
    => LET d == bf_bufs[bf_last.self].data
       IN  FieldsSet(bf_last.val)
             = IF ~HasBit(d[1], 64) THEN {"fClassRef"}
               ELSE IF d[5] < 128 THEN {"fVersion"}
               ELSE {"fClassName", "fClassRef"}

\* C24: the read of a streamed object for a class raises an error whenever
\* the header carries a class name that is not empty and whose normalized
\* form is not the name of the class, whatever the class is.
C24_NameChecked ==
    (rd_pc = "done" /\ rd_reader.op = "StreamedObject.read"
        /\ rd_reader.written.named = "other")
    => rd_result.err # ""

\* C24 as amended: the header's class name, if not empty, must be the name of
\* the class, except that _read_all_members of streamedobject.py does not
\* compare the name for a class whose name starts with "TLeaf"; a header that
\* carries the name of the class, the empty name or a version is read on (the
\* header is taken from the 8 bytes that must be there).
C24_NameCheckedButTLeaf ==
    (rd_pc = "done" /\ rd_reader.op = "StreamedObject.read")
    => LET exempt == rd_reader.rev = "streamedobject.py"
                         /\ rd_reader.cls = "TLeafI"
       IN  /\ (rd_reader.written.named = "other" /\ ~exempt) =>
                 rd_result.err = "ValueError"
           /\ ((rd_reader.written.named # "other" \/ exempt)
                  /\ rd_reader.written.delta = 0
                  /\ ReadBuffer_len(rd_buffer) >= 8)
                 => rd_result.err = ""

\* a TNamed whose header names the class TObject: ValueError
C24_Witness ==
    /\ rd_pc = "done"
    /\ rd_reader.op = "StreamedObject.read"
    /\ rd_reader.rev = "streamedobject.py"
    /\ rd_reader.cls = "TNamed"
    /\ rd_reader.written = [named |-> "other", base |-> "bare", delta |-> 0]
    /\ rd_result.err = "ValueError"

\* the byte count in the header at the start of an object
ByteCountAt(data) == BigEndian(SubSeq(data, 1, 4)) - kByteCountMask

\* C25: a streamed object read at depth 0 succeeds only if the position
\* after the members of its bases and its own is start + fByteCount + 4, and
\* a header that counts a byte more than is read raises an error; for a base
\* class, read at depth 1, a position that differs from the one its header
\* gives is not an error.
C25_EndPosition ==
    (rd_pc = "done" /\ rd_reader.op = "StreamedObject.read")
    => /\ rd_result.err = "" =>
             rd_result.buf.relpos
                = rd_buffer.relpos + ByteCountAt(rd_buffer.data) + 4
       /\ rd_reader.written.delta > 0 => rd_result.err # ""
       /\ (rd_reader.cls = "TNamed" /\ rd_reader.written.delta = 0
              /\ rd_reader.written.named # "other") =>
             rd_result.err = ""

\* a TNamed whose TObject base has a header that counts 3 bytes too many
C25_Witness ==
    /\ rd_pc = "done"
    /\ rd_reader.op = "StreamedObject.read"
    /\ rd_reader.cls = "TNamed"
    /\ rd_reader.written = [named |-> "own", base |-> "miscounted", delta |-> 0]
    /\ rd_result.err = ""
    /\ rd_result.buf.relpos = rd_buffer.relpos + ByteCountAt(rd_buffer.data) + 4
    /\ rd_result.buf.data = <<>>

\* the keys written that are short, and the padding read after the keys
WrittenShort(keys) == { i \in 1..Len(keys) : keys[i].fVersion < 1000 }
WrittenPadding(keys) ==
    IF Cardinality(WrittenShort(keys)) = Len(keys) THEN 0
    ELSE 8 * Cardinality(WrittenShort(keys))

HasParameters(self) == self.factor # <<>> /\ self.xmin # <<>> /\ self.nbits # <<>>

\* C27: a Double32 reader with the parameters xmin, factor and nbits, nbits
\* in 1..64, takes ceil(nbits / 8) bytes as one unsigned number raw, most
\* significant byte first, and yields xmin + factor * raw; a reader without
\* parameters takes 4 bytes as a binary32 float.
C27_Double32Bytes ==
    (rd_pc = "done" /\ rd_reader.op = "Double32Reader")
    => LET self == rd_reader.self
           nbytes == IF HasParameters(self) THEN (self.nbits[1] + 7) \div 8
                     ELSE 4
       IN  Len(rd_buffer.data) >= nbytes =>
             /\ rd_result.err = ""
             /\ rd_result.buf.relpos = rd_buffer.relpos + nbytes
             /\ rd_result.val.fX
                   = IF HasParameters(self)
                     THEN self.xmin[1] + self.factor[1]
                              * BigEndian(SubSeq(rd_buffer.data, 1, nbytes))
                     ELSE Float32(SubSeq(rd_buffer.data, 1, 4))

\* what the reader does: with parameters it takes 1, 1, 2, 2, 4, 4, 8, 8 bytes
\* for values of 1..8 bytes; without, the 4 bytes of a float
C27_SizesRead ==
    (rd_pc = "done" /\ rd_reader.op = "Double32Reader")
    => LET self == rd_reader.self
           nbytes == IF HasParameters(self)
                     THEN <<1, 1, 2, 2, 4, 4, 8, 8>>[(self.nbits[1] + 7) \div 8]
                     ELSE 4
       IN  IF Len(rd_buffer.data) >= nbytes
           THEN /\ rd_result.err = ""
                /\ rd_result.buf.relpos = rd_buffer.relpos + nbytes
                /\ rd_result.val.fX
                      = IF HasParameters(self)
                        THEN self.xmin[1] + self.factor[1]
                                 * BigEndian(SubSeq(rd_buffer.data, 1, nbytes))
                        ELSE Float32(SubSeq(rd_buffer.data, 1, 4))
           ELSE rd_result.err = "struct.error"

\* the entry lies in the range of elements of the page q of the column k of
\* the cluster c
InPage(clusters, c, k, q, entry) ==
    LET column == clusters[c].items[k]
    IN  /\ column.elementoffset + SumElements(column, q - 1) <= entry
        /\ entry < column.elementoffset + SumElements(column, q)

\* the pages of the column k that hold the entry
PagesOf(clusters, k, entry) ==
    { cq \in (1..Len(clusters)) \X (1..2) :
        /\ k <= Len(clusters[cq[1]].items)
        /\ cq[2] <= Len(clusters[cq[1]].items[k].items)
        /\ InPage(clusters, cq[1], k, cq[2], entry) }

\* C28: find_page(column_index, entry) returns a page only if the entry lies
\* in the range of elements of that page in its cluster and column, and it
\* returns such a page whenever there is one, whether the pages store
\* fNElements positive or negated.
C28_FindPage ==
    (xp_pc = "found" /\ xp_pages.found.err = "")
    => LET clusters ==
               xp_tuple.pagelistEnvelopes[xp_pages.envelope].pageLocations.items
           k == xp_pages.column_index + 1
           found == xp_pages.found.val
       IN  /\ found # <<>> =>
                 <<found[1].cluster, found[1].index>>
                    \in PagesOf(clusters, k, xp_pages.entry)
           /\ PagesOf(clusters, k, xp_pages.entry) # {} => found # <<>>

\* what find_page does: it finds the page of an entry that lies in a first
\* page whose fNElements is positive, and no page of a negative fNElements
C28_PositiveOnly ==
    (xp_pc = "found" /\ xp_pages.found.err = "")
    => LET clusters ==
               xp_tuple.pagelistEnvelopes[xp_pages.envelope].pageLocations.items
           k == xp_pages.column_index + 1
           found == xp_pages.found.val
       IN  /\ found # <<>> =>
                 /\ found[1].page.fNElements > 0
                 /\ <<found[1].cluster, found[1].index>>
                       \in PagesOf(clusters, k, xp_pages.entry)
           /\ (\E c \in 1..Len(clusters) :
                  <<c, 1>> \in PagesOf(clusters, k, xp_pages.entry))
                 => found # <<>>

\* the bytes of the header at the start of an object: 6 with a version, 8
\* with a reference to a class, 8 and the name and its NUL with a new class
HeaderBytesAt(data) ==
    IF IsNewClass(data) THEN 8 + Len(NameAt(data)) + 1
    ELSE IF IsClassRef(data) THEN 8
    ELSE 6

\* C29: Uninterpreted.read takes the extent that the header declares: for
\* a header with a version, with a new class tag and a class name, and with
\* a reference to a class, the position after the read is
\* start + fByteCount + 4.
C29_DeclaredExtent ==
    (rd_pc = "done" /\ rd_reader.op = "Uninterpreted.read"
        /\ rd_result.err = "")
    => rd_result.buf.relpos
          = rd_buffer.relpos + ByteCountAt(rd_buffer.data) + 4

\* what Uninterpreted.read does: it takes the header and fByteCount - 4
\* bytes, which is the declared extent after a reference to a class only,
\* and a count below 4 is an error
C29_HeaderAndCount ==
    (rd_pc = "done" /\ rd_reader.op = "Uninterpreted.read")
    => LET d == rd_buffer.data
       IN  /\ rd_result.err = "" =>
                 /\ rd_result.buf.relpos
                       = rd_buffer.relpos + HeaderBytesAt(d) + ByteCountAt(d) - 4
                 /\ Len(rd_result.val.data) = ByteCountAt(d) - 4
                 /\ rd_reader.written.form = "class reference" =>
                       rd_result.buf.relpos
                          = rd_buffer.relpos + ByteCountAt(d) + 4
           /\ (Len(d) >= 8 /\ ByteCountAt(d) < 4) => rd_result.err # ""

\* C30: TDirectory and TKey agree on the versions that select seeks of 64
\* bits: for every fVersion v of 16 bits, is_large() of the directory header
\* is true if and only if is_short() of the key is false, that is if and
\* only if v >= 1000.
C30_SeeksAgree ==
    (rd_pc = "done" /\ rd_reader.op = "is_large, is_short")
    => LET v == BigEndianSigned(rd_buffer.data)
       IN  /\ rd_result.val.is_large <=> ~rd_result.val.is_short
           /\ rd_result.val.is_large <=> v >= 1000

\* what they do: the key has seeks of 64 bits from the version 1000 on and
\* the directory above the version 1000, so that they agree at every
\* version but 1000
C30_AgreeBut1000 ==
    (rd_pc = "done" /\ rd_reader.op = "is_large, is_short")
    => LET v == BigEndianSigned(rd_buffer.data)
       IN  /\ ~rd_result.val.is_short <=> v >= 1000
           /\ rd_result.val.is_large <=> v > 1000
           /\ (rd_result.val.is_large <=> ~rd_result.val.is_short)
                 <=> v # 1000

====
